---- MODULE Spec2Model ----
(***************************************************************************)
(* Model of the VM clone operation (plugins/vm/clone.py) and of the ZFS    *)
(* dataset update / delete operations (plugins/zfs_/dataset.py).           *)
(*                                                                         *)
(* Strings are sequences of tokens.  A token is a word that contains no    *)
(* digit and no clone suffix ("foo", "tank/dsA"), the clone suffix         *)
(* "_clone", a decimal digit, or a separator ("_", "@", "/dev/zvol/").     *)
(* Concatenation of strings is concatenation of token sequences, so that   *)
(* f-strings, re.sub and str.split are computed as the code computes them. *)
(***************************************************************************)
EXTENDS Integers, Sequences, FiniteSets, TLC

\* ------------------------------------------------------------------ bounds
\* clone indices 0..MaxIdx-1 may be taken by names that exist beforehand
MaxIdx == 2
\* saga identifiers are 1..NumSagas
NumSagas == 2

\* ------------------------------------------------------------- string data
Digits == <<"0", "1", "2", "3", "4", "5", "6", "7", "8", "9">>

IsDigit(t) == \E k \in 1..Len(Digits) : Digits[k] = t

\* str(i) inside an f-string: the decimal digits of a non-negative integer
RECURSIVE IntToStr(_)
IntToStr(n) ==
    IF n < 10 THEN <<Digits[n + 1]>>
    ELSE IntToStr(n \div 10) \o <<Digits[(n % 10) + 1]>>

ZVOL_CLONE_SUFFIX == <<"_clone">>

\* positions p at which '_clone\d+$' matches: the suffix token at p, one or
\* more digit tokens after it, up to the end of the string
CloneSuffixAt(s) ==
    { p \in 1..Len(s) : /\ s[p] = ZVOL_CLONE_SUFFIX[1]
                        /\ p < Len(s)
                        /\ \A q \in (p + 1)..Len(s) : IsDigit(s[q]) }

\* ZVOL_CLONE_RE.search(s) is not None
ZVOL_CLONE_RE(s) == CloneSuffixAt(s) # {}

\* group 1 of ZVOL_CLONE_RE: '(.*)' is greedy, it ends at the last suffix
ReGroup1(s) ==
    LET p == CHOOSE x \in CloneSuffixAt(s) : \A y \in CloneSuffixAt(s) : y <= x
    IN  SubSeq(s, 1, p - 1)

\* ZVOL_CLONE_RE.sub(rf'\1{ZVOL_CLONE_SUFFIX}{i}', s)
ReSub(s, i) ==
    IF ZVOL_CLONE_RE(s) THEN ReGroup1(s) \o ZVOL_CLONE_SUFFIX \o IntToStr(i)
    ELSE s

\* always appending a new suffix to the name passed in
Rename_stacking(name, cur, i) == name \o ZVOL_CLONE_SUFFIX \o IntToStr(i)

\* the body of the two renaming branches of __clone_zvol (lines 40-43, 56-59)
Rename(name, cur, i) ==
    IF ZVOL_CLONE_RE(cur) THEN ReSub(cur, i)
    ELSE name \o ZVOL_CLONE_SUFFIX \o IntToStr(i)

\* f'{zvol}@{snapshot_name}'
SnapId(zvol, snapshot_name) == zvol \o <<"@">> \o snapshot_name

\* i.split('@'): the list of the parts between the separators
RECURSIVE Split(_)
Split(s) ==
    IF \A p \in 1..Len(s) : s[p] # "@" THEN <<s>>
    ELSE LET p == CHOOSE x \in 1..Len(s) :
                      s[x] = "@" /\ \A y \in 1..(x - 1) : s[y] # "@"
         IN  <<SubSeq(s, 1, p - 1)>> \o Split(SubSeq(s, p + 1, Len(s)))

\* the clone target without the separator
CloneDst_glued(zvol, clone_suffix) == zvol \o clone_suffix

\* f'{zvol}_{clone_suffix}'
CloneDst(zvol, clone_suffix) == zvol \o <<"_">> \o clone_suffix

\* zfs_/utils.py: os.path.join('/dev/zvol', name)
zvol_name_to_path(name) == <<"/dev/zvol/">> \o name

\* zfs_/utils.py: path[len('/dev/zvol/'):]
zvol_path_to_name(path) == SubSeq(path, 2, Len(path))

\* the filter ('name', '=', name): only the source's own name
NameFilter_exact(name, n) == n = name

\* the filter ('name', '~', rf'{name}{ZVOL_CLONE_SUFFIX}\d+'): re.match of the
\* pattern at the start of the entity name
NameFilter(name, n) ==
    /\ Len(n) >= Len(name) + 2
    /\ SubSeq(n, 1, Len(name)) = name
    /\ n[Len(name) + 1] = ZVOL_CLONE_SUFFIX[1]
    /\ IsDigit(n[Len(name) + 2])

\* the while loop of __next_clone_name, from clone_index on
RECURSIVE NextFree(_, _, _)
NextFree(name, vm_names, clone_index) ==
    LET clone_name == name \o ZVOL_CLONE_SUFFIX \o IntToStr(clone_index)
    IN  IF clone_name \notin vm_names THEN clone_name
        ELSE NextFree(name, vm_names, clone_index + 1)

\* allocation that replaces a clone suffix the name already has
next_clone_name_replacing(name, all_names) ==
    LET base == IF ZVOL_CLONE_RE(name) THEN ReGroup1(name) ELSE name
    IN  NextFree(base, { n \in all_names : NameFilter(base, n) }, 0)

\* allocation that starts counting at the number of clones found
next_clone_name_counting(name, all_names) ==
    LET vm_names == { n \in all_names : NameFilter(name, n) }
    IN  NextFree(name, vm_names, Cardinality(vm_names))

\* __next_clone_name(name) against the entity names all_names
next_clone_name(name, all_names) ==
    NextFree(name, { n \in all_names : NameFilter(name, n) }, 0)

\* ------------------------------------------------------------ dict helpers
\* d.pop(k, None) / del d[k]
Pop(d, k) == [x \in DOMAIN d \ {k} |-> d[x]]

\* d[k] = v
Put(d, k, v) == [x \in DOMAIN d \cup {k} |-> IF x = k THEN v ELSE d[x]]

\* reversed(seq)
Reversed(seq) == [k \in 1..Len(seq) |-> seq[Len(seq) + 1 - k]]

\* --------------------------------------------------------------- the world
Sagas == 1..NumSagas

None == <<"None">>

VM1 == <<"vm", "1">>
FOO == <<"foo">>
FOO3 == <<"foo", "_clone", "3">>

dsA == <<"tank/dsA">>
dsB == <<"tank/dsB">>
dsGone == <<"tank/gone">>

\* names of the sources that can be cloned
SrcNames == {VM1, FOO3}

\* the explicit names a caller passes
Overrides == {None, FOO3}

\* identifier of the source entity, and an identifier no entity has
SrcId == 1
NoId == 99

Disk(n, zvol) ==
    [id |-> n, vm |-> SrcId, dtype |-> "DISK",
     attributes |-> [path |-> zvol_name_to_path(zvol)]]

Raw(n) ==
    [id |-> n, vm |-> SrcId, dtype |-> "RAW",
     attributes |-> [path |-> <<"/mnt/tank/raw.img">>]]

Nic(n) ==
    [id |-> n, vm |-> SrcId, dtype |-> "NIC",
     attributes |-> [type |-> "E1000", mac |-> "00:a0:98:11:22:33"]]

Display(n) ==
    [id |-> n, vm |-> SrcId, dtype |-> "DISPLAY",
     attributes |-> [port |-> 5900, web_port |-> 5901]]

\* device lists of the source entity
DeviceLists ==
    { <<Disk(11, dsA), Raw(12)>>,
      <<Nic(11), Display(12), Disk(13, dsA)>>,
      <<Disk(11, dsA), Disk(12, dsB), Disk(13, dsA)>>,
      <<Disk(11, dsA), Disk(12, dsGone)>> }

\* the names of one clone family with the indices of K
Family(prefix, K) == { prefix \o ZVOL_CLONE_SUFFIX \o IntToStr(k) : k \in K }

\* names that exist beforehand: FOO3 itself when withBase, and the members
\* with an index of K of the families that the allocation loops walk through
PreNames(withBase, K) ==
    (IF withBase THEN {FOO3} ELSE {})
        \cup Family(VM1, K) \cup Family(FOO, K) \cup Family(FOO3, K)

NoErr == [op |-> "none", n |-> 0]

ZvLocals ==
    [name |-> <<>>, zvol |-> <<>>, snapshot_name |-> <<>>,
     zvol_snapshot |-> <<>>, clone_suffix |-> <<>>, clone_dst |-> <<>>, i |-> 0]

VARIABLES
    procs,            \* the sagas that run
    vms,              \* entity store: records [id, name, uuid, status, devices]
    devs,             \* device store: the records created, in creation order
    datasets,         \* dataset store: records [id, by], by = creating saga or 0
    snaps,            \* snapshot store: records [id, by]
    nextPort,         \* port allocator state
    pc,               \* position of each saga in clone()
    args,             \* arguments (id, name) of each call
    vm,               \* the dict vm of clone()
    new_vm,           \* id of the entity record created
    devices,          \* devices still to iterate over
    item,             \* the loop variable item
    zv,               \* the locals of __clone_zvol
    created_snaps,    \* ledger of snapshots
    created_clones,   \* ledger of clones
    e,                \* the exception caught at line 120
    rb,               \* what the running rollback loop still has to visit
    result,           \* what clone() returned (TRUE) or raised
    log,              \* every middleware.call made, in order, with its outcome
    warnings          \* logger.warning / logger.warn messages

sagaVars ==
    <<procs, vms, devs, datasets, snaps, nextPort, pc, args, vm, new_vm,
      devices, item, zv, created_snaps, created_clones, e, rb, result, log,
      warnings>>

\* ------------------------------------------------- the world of zfs.dataset
\* at most MaxProps properties in one update
MaxProps == 3

TargetId == <<"tank/ds">>

\* the properties the target dataset has
TargetProps ==
    [k \in {<<"quota">>, <<"refquota">>, <<"compression">>} |->
        [value |-> "default", source |-> "DEFAULT"]]

\* the names a caller may pass: three properties the target has, two it lacks
PropNames ==
    {<<"quota">>, <<"refquota">>, <<"compression">>, <<"org", ":", "new">>, <<"bogus">>}

\* the values a caller may pass for a property
PropChanges ==
    { [value |-> "v"], [parsed |-> "p"], [source |-> "INHERIT"], [source |-> "LOCAL"] }

\* the dicts of at most n items over PropNames
RECURSIVE Dicts(_)
Dicts(n) ==
    IF n = 0 THEN {<<>>}
    ELSE Dicts(n - 1) \cup
         { Append(d, [k |-> k, v |-> v]) :
             d \in { x \in Dicts(n - 1) : Len(x) = n - 1 },
             k \in PropNames, v \in PropChanges }

\* the dicts have distinct keys
Batches == { d \in Dicts(MaxProps) : \A i, j \in 1..Len(d) : i # j => d[i].k # d[j].k }

\* the names a caller may pass to do_create: two root-level ones, two full
CreateNames ==
    { <<"tank">>, <<"newdataset">>, <<"tank", "/", "ds">>,
      <<"tank", "/", "a", "/", "b">> }

\* the properties a caller may pass to do_create
CreateProperties ==
    { <<>>,
      [k \in {<<"xattr">>} |-> "on"],
      [k \in {<<"sparse">>, <<"volsize">>} |->
          IF k = <<"sparse">> THEN "True" ELSE "1G"] }

CreateRequests ==
    [name : CreateNames, type : {"FILESYSTEM", "VOLUME"},
     properties : CreateProperties]

\* what zfs destroy writes to stderr when it fails on a dataset that exists
DestroyFailures ==
    { <<"cannot destroy 'tank/ds': ", "dataset is busy", "\n">>,
      <<"umount: /mnt/tank/ds: ", "Device busy", "\n", "cannot unmount '/mnt/tank/ds'", "\n">>,
      <<"cannot destroy 'tank/ds': ", "filesystem has children", "\n">> }

\* what zfs destroy writes to stderr when the dataset is not there
NoDataset == <<"cannot open 'tank/ds': ", "dataset does not exist", "\n">>

NoResult == [kind |-> "none", errno |-> "none", detail |-> <<>>]

VARIABLES
    zds,              \* the target dataset: [exists, props]
    dpc,              \* position of the zfs.dataset call
    dcall,            \* the call: [op, recv, args, stderr]
    handed,           \* property names given to the store, in order
    cmds,             \* the zfs commands run, in order
    dresult           \* what the call returned or raised

dsVars == <<zds, dpc, dcall, handed, cmds, dresult>>

NoCall == [op |-> "none", recv |-> 0, args |-> <<>>, stderr |-> <<>>]

\* no zfs.dataset call is made
DatasetIdle ==
    /\ zds = [exists |-> FALSE, props |-> TargetProps]
    /\ dpc = "off"
    /\ dcall = NoCall
    /\ handed = <<>>
    /\ cmds = <<>>
    /\ dresult = NoResult

\* the target dataset exists or not, no call made yet
DatasetInit ==
    /\ zds \in { [exists |-> x, props |-> TargetProps] : x \in BOOLEAN }
    /\ dpc = "idle"
    /\ dcall = NoCall
    /\ handed = <<>>
    /\ cmds = <<>>
    /\ dresult = NoResult

\* ------------------------------------------------- the world of smb.sharesec
\* at most MaxAces entries in the ACL of one setacl call
MaxAces == 2

\* the letters of the share names, upper case and lower case
UpperCase == <<"D", "O", "C", "S", "H", "M", "E">>
LowerCase == <<"d", "o", "c", "s", "h", "m", "e">>

\* str.lower() and str.upper() of one character
LowerChar(ch) ==
    IF \E j \in 1..Len(UpperCase) : UpperCase[j] = ch
    THEN LowerCase[CHOOSE j \in 1..Len(UpperCase) : UpperCase[j] = ch] ELSE ch

UpperChar(ch) ==
    IF \E j \in 1..Len(LowerCase) : LowerCase[j] = ch
    THEN UpperCase[CHOOSE j \in 1..Len(LowerCase) : LowerCase[j] = ch] ELSE ch

Lower(name) == [j \in 1..Len(name) |-> LowerChar(name[j])]

Upper(name) == [j \in 1..Len(name) |-> UpperChar(name[j])]

\* the name under which the share of home directories is addressed
HOMES == <<"H", "O", "M", "E", "S">>

\* the names of the two shares of the configuration database
DocsName == <<"D", "o", "c", "s">>
HomeName == <<"M", "e">>

\* the share names a caller may pass: both shares in several spellings, and
\* a name no share has
ShareNames ==
    { DocsName, Lower(DocsName), HOMES, Lower(HOMES), HomeName,
      <<"h", "o", "m", "e">> }

SidEveryone == <<"S-1-", "1-0">>
SidUsers == <<"S-1-", "5-32-545">>
SidRoot == <<"S-1-", "22-1-0">>

NameRoot == <<"NAS", "root">>

\* the ACL entries a caller may pass: by SID, by name, by neither
Aces ==
    { [ae_who_sid |-> SidUsers, ae_who_name |-> None,
       ae_type |-> "ALLOWED", ae_perm |-> "FULL"],
      [ae_who_sid |-> None, ae_who_name |-> NameRoot,
       ae_type |-> "ALLOWED", ae_perm |-> "CHANGE"],
      [ae_who_sid |-> None, ae_who_name |-> None,
       ae_type |-> "ALLOWED", ae_perm |-> "READ"] }

\* the lists of one to n entries, no entry twice
RECURSIVE AceLists(_)
AceLists(n) ==
    IF n = 0 THEN {}
    ELSE IF n = 1 THEN { <<ae>> : ae \in Aces }
    ELSE AceLists(n - 1) \cup
         { l \in { Append(x, ae) : x \in AceLists(n - 1), ae \in Aces } :
             /\ Len(l) = n
             /\ \A j \in 1..(n - 1) : l[j] # l[n] }

\* the requests a caller may pass to setacl
SetAclRequests == [share_name : ShareNames, share_acl : AceLists(MaxAces)]

\* at most MaxSetAcl calls of setacl are made
MaxSetAcl == 2

\* an ACL in the text form that older versions kept in the database
LegacyAcl ==
    <<"S-1-", "5-32-545", ":", "ALLOWED", "/0x0/", "READ", " ",
      "S-1-", "1-0", ":", "DENIED", "/0x0/", "FULL">>

\* the state of the configuration database: the two shares in either order,
\* each without a stored ACL or with one in the text form
ShareTables ==
    { <<[id |-> a, name |-> IF a = 1 THEN DocsName ELSE HomeName,
         home |-> (a = 2), share_acl |-> x],
        [id |-> 3 - a, name |-> IF a = 1 THEN HomeName ELSE DocsName,
         home |-> (a = 1), share_acl |-> y]>> :
          a \in {1, 2}, x \in {<<>>, LegacyAcl}, y \in {<<>>, LegacyAcl} }

NoTdb == [k \in {} |-> <<>>]

NoShareCall == [op |-> "none", kind |-> "none", errno |-> "none", detail |-> <<>>]

VARIABLES
    cifs_share,       \* the rows of sharing.cifs_share, in query order
    share_info,       \* share_info.tdb: key -> payload
    spc,              \* position of the smb.sharesec call
    shares,           \* the rows _flush_share_info has yet to visit
    sresult,          \* the last call: what it was, what it returned or raised
    setacls,          \* how many setacl calls were made
    committed,        \* share id -> what the last committed setacl stored
    restore           \* share id -> "none", "set", "lost" or "restored"

ssVars ==
    <<cifs_share, share_info, spc, shares, sresult, setacls, committed, restore>>

NoCommit == [payload |-> <<>>, args |-> <<>>]

\* no smb.sharesec call is made
ShareSecIdle ==
    /\ cifs_share = <<>>
    /\ share_info = NoTdb
    /\ spc = "off"
    /\ shares = <<>>
    /\ sresult = NoShareCall
    /\ setacls = 0
    /\ committed = [id \in {1, 2} |-> NoCommit]
    /\ restore = [id \in {1, 2} |-> "none"]

\* the database holds the two shares, share_info.tdb has default entries only
ShareSecInit ==
    /\ cifs_share \in ShareTables
    /\ share_info = NoTdb
    /\ spc = "idle"
    /\ shares = <<>>
    /\ sresult = NoShareCall
    /\ setacls = 0
    /\ committed = [id \in {1, 2} |-> NoCommit]
    /\ restore = [id \in {1, 2} |-> "none"]

\* ------------------------------------------- zfs.dataset: update and delete
\* a dict is the sequence of its items [k, v], in insertion order
Keys(d) == [j \in 1..Len(d) |-> d[j].k]

HasKey(d, k) == \E j \in 1..Len(d) : d[j].k = k

Get(d, k) == d[CHOOSE j \in 1..Len(d) : d[j].k = k].v

\* d.pop(k): the dict without the item of k
RECURSIVE Without(_, _)
Without(d, k) ==
    IF d = <<>> THEN <<>>
    ELSE IF Head(d).k = k THEN Without(Tail(d), k)
    ELSE <<Head(d)>> \o Without(Tail(d), k)

\* properties[k] = properties.pop(k): the item of k becomes the last one
SetLast(d, k) == Append(Without(d, k), [k |-> k, v |-> Get(d, k)])

\* line 175: the properties that are set after the others
LastProps == << <<"quota">>, <<"refquota">> >>

\* leaving the properties in the order the caller gave
Reordered_asGiven(properties, ks) == properties

\* lines 175-177: the loop over the list ks
RECURSIVE Reordered(_, _)
Reordered(properties, ks) ==
    IF ks = <<>> THEN properties
    ELSE Reordered(IF HasKey(properties, Head(ks))
                   THEN SetLast(properties, Head(ks)) ELSE properties,
                   Tail(ks))

\* str.strip(): no whitespace at either end
RECURSIVE Strip(_)
Strip(t) ==
    IF t = <<>> THEN t
    ELSE IF Head(t) \in {"\n", " "} THEN Strip(Tail(t))
    ELSE IF t[Len(t)] \in {"\n", " "} THEN Strip(SubSeq(t, 1, Len(t) - 1))
    ELSE t

\* t.endswith(phrase)
EndsWith(t, phrase) == t # <<>> /\ t[Len(t)] = phrase

\* phrase in t
Contains(t, phrase) == \E j \in 1..Len(t) : t[j] = phrase

\* inheriting is never an error
ItemErrors_inheritUnchecked(k, v, props) ==
    IF "source" \in DOMAIN v /\ v["source"] = "INHERIT"
    THEN <<>>
    ELSE (IF ~(\E i \in {"parsed", "value"} : i \in DOMAIN v)
          THEN <<[attr |-> k, msg |-> "\"value\" or \"parsed\" must be specified when setting a property"]>>
          ELSE <<>>)
         \o
         (IF k \notin DOMAIN props /\ ~Contains(k, ":")
          THEN <<[attr |-> k, msg |-> "User property needs a colon (:) in its name"]>>
          ELSE <<>>)

\* a new property is not asked for a colon in its name
ItemErrors_noColonCheck(k, v, props) ==
    IF "source" \in DOMAIN v /\ v["source"] = "INHERIT"
    THEN IF k \notin DOMAIN props
         THEN <<[attr |-> k, msg |-> "Property does not exist and cannot be inherited"]>>
         ELSE <<>>
    ELSE IF ~(\E i \in {"parsed", "value"} : i \in DOMAIN v)
         THEN <<[attr |-> k, msg |-> "\"value\" or \"parsed\" must be specified when setting a property"]>>
         ELSE <<>>

\* lines 234-245: the validation errors of one item, in the order added
ItemErrors(k, v, props) ==
    IF "source" \in DOMAIN v /\ v["source"] = "INHERIT"
    THEN IF k \notin DOMAIN props
         THEN <<[attr |-> k, msg |-> "Property does not exist and cannot be inherited"]>>
         ELSE <<>>
    ELSE (IF ~(\E i \in {"parsed", "value"} : i \in DOMAIN v)
          THEN <<[attr |-> k, msg |-> "\"value\" or \"parsed\" must be specified when setting a property"]>>
          ELSE <<>>)
         \o
         (IF k \notin DOMAIN props /\ ~Contains(k, ":")
          THEN <<[attr |-> k, msg |-> "User property needs a colon (:) in its name"]>>
          ELSE <<>>)

\* lines 233-247: the errors verrors holds when verrors.check() runs
RECURSIVE Verrors(_, _)
Verrors(properties, props) ==
    IF properties = <<>> THEN <<>>
    ELSE ItemErrors(Head(properties).k, Head(properties).v, props)
         \o Verrors(Tail(properties), props)

\* zfs_object.update_properties: what one item does to the property set
ApplyItem(props, k, v) ==
    IF "source" \in DOMAIN v /\ v["source"] = "INHERIT"
    THEN IF k \in DOMAIN props
         THEN Put(props, k, [value |-> "inherited", source |-> "INHERITED"])
         ELSE props
    ELSE Put(props, k, [value |-> IF "value" \in DOMAIN v THEN v["value"] ELSE v["parsed"],
                        source |-> "LOCAL"])

\* zfs_object.update_properties: the first n items, in dict order
RECURSIVE ApplyItems(_, _, _)
ApplyItems(props, properties, n) ==
    IF n = 0 THEN props
    ELSE ApplyItems(ApplyItem(props, Head(properties).k, Head(properties).v),
                    Tail(properties), n - 1)

\* the test of the stderr as it comes, a trailing newline included
Tolerated_unstripped(returncode, stderr) ==
    returncode = 0 /\ EndsWith(stderr, "dataset does not exist")

\* line 214: the failure of zfs destroy that do_delete takes for a success
Tolerated(returncode, stderr) ==
    returncode = 0 /\ EndsWith(Strip(stderr), "dataset does not exist")

\* only 'Device busy' counts as busy
DeleteErrno_deviceOnly(error) ==
    IF Contains(error, "Device busy") THEN "EBUSY" ELSE "EFAULT"

\* lines 217-220: the errno of the CallError
DeleteErrno(error) ==
    IF Contains(error, "Device busy") \/ Contains(error, "dataset is busy")
    THEN "EBUSY" ELSE "EFAULT"

\* lines 198-202: the arguments of zfs destroy
DestroyArgs(force, recursive) ==
    (IF force THEN <<"-f">> ELSE <<>>) \o (IF recursive THEN <<"-r">> ELSE <<>>)

\* the state of the stores, the sagas not yet called: the source is one of
\* names with one of lists, ents are the index sets of its earlier clones and
\* left those of the names earlier clones left in the dataset store
SagaInitOf(P, names, lists, ents, left, bases) ==
    /\ procs = P
    /\ \E srcName \in names, devlist \in lists, Kent \in ents :
          vms = { [id |-> SrcId, name |-> srcName, uuid |-> 0,
                   status |-> "STOPPED", devices |-> devlist] }
                \cup { [id |-> 2 + k, name |-> srcName \o ZVOL_CLONE_SUFFIX \o IntToStr(k),
                        uuid |-> 2 + k, status |-> "STOPPED", devices |-> <<>>]
                       : k \in Kent }
    /\ devs = <<>>
    /\ \E withBase \in bases, K \in left :
          \* names left behind by earlier clones: snapshots of both zvols,
          \* clone datasets of dsA
          /\ datasets = { [id |-> d, by |-> 0] : d \in {dsA, dsB} }
                        \cup { [id |-> CloneDst(dsA, n), by |-> 0]
                               : n \in PreNames(withBase, K) }
          /\ snaps = { [id |-> SnapId(d, n), by |-> 0]
                       : d \in {dsA, dsB}, n \in PreNames(withBase, K) }
    /\ nextPort = 5902
    /\ pc = [s \in Sagas |-> "idle"]
    /\ args = [s \in Sagas |-> [id |-> 0, name |-> None]]
    /\ vm = [s \in Sagas |-> [name |-> <<>>, uuid |-> 0]]
    /\ new_vm = [s \in Sagas |-> 0]
    /\ devices = [s \in Sagas |-> <<>>]
    /\ item = [s \in Sagas |-> [dtype |-> "none"]]
    /\ zv = [s \in Sagas |-> ZvLocals]
    /\ created_snaps = [s \in Sagas |-> <<>>]
    /\ created_clones = [s \in Sagas |-> <<>>]
    /\ e = [s \in Sagas |-> NoErr]
    /\ rb = [s \in Sagas |-> <<>>]
    /\ result = [s \in Sagas |-> NoErr]
    /\ log = [s \in Sagas |-> <<>>]
    /\ warnings = [s \in Sagas |-> <<>>]

\* every source, device list and set of earlier names within the bounds
SagaInit(P) ==
    SagaInitOf(P, SrcNames, DeviceLists, SUBSET (0..(MaxIdx - 1)),
               SUBSET (0..(MaxIdx - 1)), BOOLEAN)

\* no saga runs and the stores are empty
SagaIdle ==
    /\ procs = {}
    /\ vms = {}
    /\ devs = <<>>
    /\ datasets = {}
    /\ snaps = {}
    /\ nextPort = 5902
    /\ pc = [s \in Sagas |-> "idle"]
    /\ args = [s \in Sagas |-> [id |-> 0, name |-> None]]
    /\ vm = [s \in Sagas |-> [name |-> <<>>, uuid |-> 0]]
    /\ new_vm = [s \in Sagas |-> 0]
    /\ devices = [s \in Sagas |-> <<>>]
    /\ item = [s \in Sagas |-> [dtype |-> "none"]]
    /\ zv = [s \in Sagas |-> ZvLocals]
    /\ created_snaps = [s \in Sagas |-> <<>>]
    /\ created_clones = [s \in Sagas |-> <<>>]
    /\ e = [s \in Sagas |-> NoErr]
    /\ rb = [s \in Sagas |-> <<>>]
    /\ result = [s \in Sagas |-> NoErr]
    /\ log = [s \in Sagas |-> <<>>]
    /\ warnings = [s \in Sagas |-> <<>>]

\* ------------------------------------------------------- collaborator calls
DatasetIds == { d.id : d \in datasets }
SnapIds == { x.id : x \in snaps }
VmNames == { v.name : v \in vms }

\* one entry of the call log
Call(op, arg, err) == [op |-> op, arg |-> arg, err |-> err]

\* the exception raised by the call that is about to be logged by saga s
Err(s, op) == [op |-> op, n |-> Len(log[s]) + 1]

Logged(s, op, arg, err) == log' = [log EXCEPT ![s] = Append(@, Call(op, arg, err))]

\* the rollback loops visit the ledgers in creation order
RollbackOrder_forward(ledger) == ledger

\* lines 121 and 126: reversed(ledger), the order of a rollback loop
RollbackOrder(ledger) == Reversed(ledger)

\* a failed creation goes back to the allocation loop of its name
Except_retry(s, err) ==
    IF err.op = "zfs.snapshot.create"
    THEN pc' = [pc EXCEPT ![s] = "snap_query"] /\ UNCHANGED <<e, rb>>
    ELSE IF err.op = "zfs.snapshot.clone"
    THEN pc' = [pc EXCEPT ![s] = "clone_query"] /\ UNCHANGED <<e, rb>>
    ELSE /\ e' = [e EXCEPT ![s] = err]
         /\ rb' = [rb EXCEPT ![s] = RollbackOrder(created_clones[s])]
         /\ pc' = [pc EXCEPT ![s] = "rb_clones"]

\* lines 120-121: the exception is caught and the first rollback loop starts
Except(s, err) ==
    /\ e' = [e EXCEPT ![s] = err]
    /\ rb' = [rb EXCEPT ![s] = RollbackOrder(created_clones[s])]
    /\ pc' = [pc EXCEPT ![s] = "rb_clones"]

RetTrue == [op |-> "return True", n |-> 0]

\* vm.do_create refuses a name that an entity already has
NameTaken(name) == name \in VmNames

\* ------------------------------------------------------------------ clone()
\* lines 80-85: vm.get_instance(id), outside the try block
Clone(s, id, name) ==
    /\ s \in procs
    /\ pc[s] = "idle"
    /\ args' = [args EXCEPT ![s] = [id |-> id, name |-> name]]
    /\ IF \E v \in vms : v.id = id
       THEN LET v == CHOOSE x \in vms : x.id = id
            IN  /\ vm' = [vm EXCEPT ![s] = [name |-> v.name, uuid |-> v.uuid]]
                /\ devices' = [devices EXCEPT ![s] = v.devices]
                /\ pc' = [pc EXCEPT ![s] = "next_name"]
                /\ Logged(s, "vm.get_instance", <<id>>, NoErr)
                /\ UNCHANGED result
       ELSE /\ pc' = [pc EXCEPT ![s] = "raised"]
            /\ result' = [result EXCEPT ![s] = Err(s, "vm.get_instance")]
            /\ Logged(s, "vm.get_instance", <<id>>, Err(s, "vm.get_instance"))
            /\ UNCHANGED <<vm, devices>>
    /\ UNCHANGED <<dsVars, ssVars>>
    /\ UNCHANGED <<procs, vms, devs, datasets, snaps, nextPort, new_vm, item,
                   zv, created_snaps, created_clones, e, rb, warnings>>

\* the name the caller passed is dropped when an entity already has it
NewName_checked(allocated, name) ==
    IF name # None /\ ~NameTaken(name) THEN name ELSE allocated

\* lines 87-91: the allocated name, replaced by the name the caller passed
NewName(allocated, name) == IF name # None THEN name ELSE allocated

\* a ledger that still holds an entry of an earlier call
EmptyLedger_stale == <<SnapId(dsA, FOO3)>>

\* lines 94-95: created_snaps = [] and created_clones = []
EmptyLedger == <<>>

\* lines 87-95: the name of the new entity, its uuid, the empty ledgers
NextCloneName(s) ==
    /\ s \in procs
    /\ pc[s] = "next_name"
    /\ vm' = [vm EXCEPT ![s] =
                 [name |-> NewName(next_clone_name(vm[s].name, VmNames),
                                   args[s].name),
                  uuid |-> 1000 + s]]
    /\ Logged(s, "vm.query", vm[s].name, NoErr)
    /\ created_snaps' = [created_snaps EXCEPT ![s] = EmptyLedger]
    /\ created_clones' = [created_clones EXCEPT ![s] = EmptyLedger]
    /\ pc' = [pc EXCEPT ![s] = "do_create"]
    /\ UNCHANGED <<dsVars, ssVars>>
    /\ UNCHANGED <<procs, vms, devs, datasets, snaps, nextPort, args, new_vm,
                   devices, item, zv, e, rb, result, warnings>>

\* a fresh identifier for an entity record
FreshId == (CHOOSE m \in { v.id : v \in vms } : \A v \in vms : v.id <= m) + 1

\* line 97: vm.do_create(vm), the first call inside the try block
DoCreate(s) ==
    /\ s \in procs
    /\ pc[s] = "do_create"
    /\ \E ok \in BOOLEAN :
          IF ok /\ ~NameTaken(vm[s].name)
          THEN /\ vms' = vms \cup { [id |-> FreshId, name |-> vm[s].name,
                                     uuid |-> vm[s].uuid, status |-> "STOPPED",
                                     devices |-> <<>>] }
               /\ new_vm' = [new_vm EXCEPT ![s] = FreshId]
               /\ pc' = [pc EXCEPT ![s] = "for_item"]
               /\ Logged(s, "vm.do_create", vm[s].name, NoErr)
               /\ UNCHANGED <<e, rb>>
          ELSE /\ Except(s, Err(s, "vm.do_create"))
               /\ Logged(s, "vm.do_create", vm[s].name, Err(s, "vm.do_create"))
               /\ UNCHANGED <<vms, new_vm>>
    /\ UNCHANGED <<dsVars, ssVars>>
    /\ UNCHANGED <<procs, devs, datasets, snaps, nextPort, args, vm, devices,
                   item, zv, created_snaps, created_clones, result, warnings>>

\* lines 100-101 applied to a device of the source
Reassigned(d, owner) == Put(Pop(d, "id"), "vm", owner)

\* the NIC keeps the mac of the source
NicAttributes_kept(attrs) == attrs

\* lines 102-104: the NIC loses its mac
NicAttributes(attrs) == Pop(attrs, "mac")

\* no device type is skipped
SkipsDevice_never(dtype) == FALSE

\* lines 115-117: the device types that get no device record
SkipsDevice(dtype) == dtype = "RAW"

\* the value an identifier-returning method would hand back
ReturnsId(id) == [op |-> "return id", n |-> id]

\* the identifier of the new entity is returned
ReturnValue_id(id, name) == ReturnsId(id)

\* lines 72 and 139: the method is declared Bool() and returns True
ReturnValue(id, name) == RetTrue

\* the loop takes the devices from the end of the list
Iteration_backwards(ds) ==
    [item |-> ds[Len(ds)], rest |-> SubSeq(ds, 1, Len(ds) - 1)]

\* line 99: for item in devices, the next item and the items after it
Iteration(ds) == [item |-> Head(ds), rest |-> Tail(ds)]

\* lines 99-117 and 137-139: the next device, up to its first call; the end
\* of the loop returns True
ForItem(s) ==
    /\ s \in procs
    /\ pc[s] = "for_item"
    /\ IF devices[s] = <<>>
       THEN /\ pc' = [pc EXCEPT ![s] = "returned"]
            /\ result' = [result EXCEPT ![s] =
                              ReturnValue(new_vm[s], vm[s].name)]
            /\ UNCHANGED <<devices, item, zv, warnings>>
       ELSE LET it == Reassigned(Iteration(devices[s]).item, new_vm[s])
            IN  /\ devices' = [devices EXCEPT ![s] = Iteration(@).rest]
                /\ UNCHANGED result
                /\ CASE SkipsDevice(it["dtype"]) ->
                          /\ item' = [item EXCEPT ![s] = it]
                          /\ warnings' = [warnings EXCEPT ![s] =
                                Append(@, <<"RAW disks must be copied manually. Skipping...">>)]
                          /\ pc' = [pc EXCEPT ![s] = "for_item"]
                          /\ UNCHANGED zv
                     [] it["dtype"] = "NIC" ->
                          /\ item' = [item EXCEPT ![s] =
                                Put(it, "attributes", NicAttributes(it["attributes"]))]
                          /\ pc' = [pc EXCEPT ![s] = "device_create"]
                          /\ UNCHANGED <<zv, warnings>>
                     [] it["dtype"] = "DISPLAY" ->
                          /\ item' = [item EXCEPT ![s] = it]
                          /\ pc' = [pc EXCEPT ![s] =
                                IF "port" \in DOMAIN it["attributes"]
                                THEN "port_wizard" ELSE "device_create"]
                          /\ UNCHANGED <<zv, warnings>>
                     [] it["dtype"] = "DISK" ->
                          /\ item' = [item EXCEPT ![s] = it]
                          /\ zv' = [zv EXCEPT ![s] = [ZvLocals EXCEPT
                                !.name = vm[s].name,
                                !.zvol = zvol_path_to_name(it["attributes"]["path"])]]
                          /\ pc' = [pc EXCEPT ![s] = "zvol_query"]
                          /\ UNCHANGED warnings
                     [] OTHER ->
                          /\ item' = [item EXCEPT ![s] = it]
                          /\ pc' = [pc EXCEPT ![s] = "device_create"]
                          /\ UNCHANGED <<zv, warnings>>
    /\ UNCHANGED <<dsVars, ssVars>>
    /\ UNCHANGED <<procs, vms, devs, datasets, snaps, nextPort, args, vm,
                   new_vm, created_snaps, created_clones, e, rb, log>>

\* the port pair the allocator hands out when n is its next free port
port_wizard(n) == [port |-> n, web |-> n + 1]

\* the DISPLAY keeps the ports of the source
DisplayAttributes_kept(attrs, dev_dict) == attrs

\* lines 108-109: both port attributes are overwritten
DisplayAttributes(attrs, dev_dict) ==
    Put(Put(attrs, "port", dev_dict.port), "web_port", dev_dict.web)

\* lines 107-109: vm.port_wizard and the two port attributes
PortWizard(s) ==
    /\ s \in procs
    /\ pc[s] = "port_wizard"
    /\ \E ok \in BOOLEAN :
          IF ok
          THEN /\ item' = [item EXCEPT ![s] = Put(@, "attributes",
                              DisplayAttributes(@["attributes"],
                                                port_wizard(nextPort)))]
               /\ nextPort' = nextPort + 2
               /\ pc' = [pc EXCEPT ![s] = "device_create"]
               /\ Logged(s, "vm.port_wizard", <<>>, NoErr)
               /\ UNCHANGED <<e, rb>>
          ELSE /\ Except(s, Err(s, "vm.port_wizard"))
               /\ Logged(s, "vm.port_wizard", <<>>, Err(s, "vm.port_wizard"))
               /\ UNCHANGED <<item, nextPort>>
    /\ UNCHANGED <<dsVars, ssVars>>
    /\ UNCHANGED <<procs, vms, devs, datasets, snaps, args, vm, new_vm,
                   devices, zv, created_snaps, created_clones, result, warnings>>

\* line 119: vm.device.create(item)
DeviceCreate(s) ==
    /\ s \in procs
    /\ pc[s] = "device_create"
    /\ \E ok \in BOOLEAN :
          IF ok
          THEN /\ devs' = Append(devs, item[s])
               /\ pc' = [pc EXCEPT ![s] = "for_item"]
               /\ Logged(s, "vm.device.create", <<item[s]["dtype"]>>, NoErr)
               /\ UNCHANGED <<e, rb>>
          ELSE /\ Except(s, Err(s, "vm.device.create"))
               /\ Logged(s, "vm.device.create", <<item[s]["dtype"]>>,
                         Err(s, "vm.device.create"))
               /\ UNCHANGED devs
    /\ UNCHANGED <<dsVars, ssVars>>
    /\ UNCHANGED <<procs, vms, datasets, snaps, nextPort, args, vm, new_vm,
                   devices, item, zv, created_snaps, created_clones, result,
                   warnings>>

\* ----------------------------------------------------------- __clone_zvol()
\* the snapshot is created but never recorded
AppendSnap_forgotten(ledger, zvol_snapshot) == ledger

\* the ledger gets the name of the snapshot without its dataset
AppendSnap_nameOnly(ledger, zvol_snapshot) ==
    Append(ledger, Split(zvol_snapshot)[2])

\* created_snaps.append(zvol_snapshot) (line 49)
AppendSnap(ledger, zvol_snapshot) == Append(ledger, zvol_snapshot)

\* the entry is recorded before the call that creates it is made
LedgerOnFailure_recorded(ledger, entry) == Append(ledger, entry)

\* lines 48-49 and 64-66: the failed call raises before the append is reached
LedgerOnFailure(ledger, entry) == ledger

\* the newest clone is put in front of the ledger
AppendClone_prepended(ledger, clone_dst) == <<clone_dst>> \o ledger

\* created_clones.append(clone_dst) (line 66)
AppendClone(ledger, clone_dst) == Append(ledger, clone_dst)

\* the step goes on without looking for the zvol
ZvolExists_unchecked(zvol) == TRUE

\* line 32: zfs.dataset.query [['id', '=', zvol]] is not empty
ZvolExists(zvol) == zvol \in DatasetIds

\* lines 32-36: the zvol must exist
ZvolQuery(s) ==
    /\ s \in procs
    /\ pc[s] = "zvol_query"
    /\ IF ZvolExists(zv[s].zvol)
       THEN /\ zv' = [zv EXCEPT ![s].snapshot_name = zv[s].name, ![s].i = 0]
            /\ pc' = [pc EXCEPT ![s] = "snap_query"]
            /\ Logged(s, "zfs.dataset.query", zv[s].zvol, NoErr)
            /\ UNCHANGED <<e, rb>>
       ELSE /\ Except(s, Err(s, "ENOENT"))
            /\ Logged(s, "zfs.dataset.query", zv[s].zvol, Err(s, "ENOENT"))
            /\ UNCHANGED zv
    /\ UNCHANGED <<dsVars, ssVars>>
    /\ UNCHANGED <<procs, vms, devs, datasets, snaps, nextPort, args, vm,
                   new_vm, devices, item, created_snaps, created_clones,
                   result, warnings>>

\* lines 37-46: one iteration of the loop that looks for a free snapshot name
SnapQuery(s) ==
    /\ s \in procs
    /\ pc[s] = "snap_query"
    /\ LET zvol_snapshot == SnapId(zv[s].zvol, zv[s].snapshot_name)
       IN  /\ Logged(s, "zfs.snapshot.query", zvol_snapshot, NoErr)
           /\ IF zvol_snapshot \in SnapIds
              THEN /\ zv' = [zv EXCEPT
                        ![s].zvol_snapshot = zvol_snapshot,
                        ![s].snapshot_name = Rename(zv[s].name, @, zv[s].i),
                        ![s].i = @ + 1]
                   /\ UNCHANGED pc
              ELSE /\ zv' = [zv EXCEPT ![s].zvol_snapshot = zvol_snapshot]
                   /\ pc' = [pc EXCEPT ![s] = "snap_create"]
    /\ UNCHANGED <<dsVars, ssVars>>
    /\ UNCHANGED <<procs, vms, devs, datasets, snaps, nextPort, args, vm,
                   new_vm, devices, item, created_snaps, created_clones, e,
                   rb, result, warnings>>

\* lines 48-52: zfs.snapshot.create, then the ledger entry
SnapCreate(s) ==
    /\ s \in procs
    /\ pc[s] = "snap_create"
    /\ LET id == SnapId(zv[s].zvol, zv[s].snapshot_name)
       IN  \E ok \in BOOLEAN :
             IF ok /\ zv[s].zvol \in DatasetIds /\ id \notin SnapIds
             THEN /\ snaps' = snaps \cup { [id |-> id, by |-> s] }
                  /\ created_snaps' = [created_snaps EXCEPT ![s] =
                                          AppendSnap(@, zv[s].zvol_snapshot)]
                  /\ zv' = [zv EXCEPT ![s].clone_suffix = zv[s].name, ![s].i = 0]
                  /\ pc' = [pc EXCEPT ![s] = "clone_query"]
                  /\ Logged(s, "zfs.snapshot.create", id, NoErr)
                  /\ UNCHANGED <<e, rb>>
             ELSE /\ Except(s, Err(s, "zfs.snapshot.create"))
                  /\ Logged(s, "zfs.snapshot.create", id,
                            Err(s, "zfs.snapshot.create"))
                  /\ created_snaps' = [created_snaps EXCEPT ![s] =
                                          LedgerOnFailure(@, zv[s].zvol_snapshot)]
                  /\ UNCHANGED <<snaps, zv>>
    /\ UNCHANGED <<dsVars, ssVars>>
    /\ UNCHANGED <<procs, vms, devs, datasets, nextPort, args, vm, new_vm,
                   devices, item, created_clones, result, warnings>>

\* lines 53-62: one iteration of the loop that looks for a free clone name
CloneQuery(s) ==
    /\ s \in procs
    /\ pc[s] = "clone_query"
    /\ LET clone_dst == CloneDst(zv[s].zvol, zv[s].clone_suffix)
       IN  /\ Logged(s, "zfs.dataset.query", clone_dst, NoErr)
           /\ IF clone_dst \in DatasetIds
              THEN /\ zv' = [zv EXCEPT
                        ![s].clone_dst = clone_dst,
                        ![s].clone_suffix = Rename(zv[s].name, @, zv[s].i),
                        ![s].i = @ + 1]
                   /\ UNCHANGED pc
              ELSE /\ zv' = [zv EXCEPT ![s].clone_dst = clone_dst]
                   /\ pc' = [pc EXCEPT ![s] = "snap_clone"]
    /\ UNCHANGED <<dsVars, ssVars>>
    /\ UNCHANGED <<procs, vms, devs, datasets, snaps, nextPort, args, vm,
                   new_vm, devices, item, created_snaps, created_clones, e,
                   rb, result, warnings>>

\* the DISK keeps the path of the zvol of the source
DiskAttributes_kept(attrs, clone_dst) == attrs

\* lines 112-114: the path of the DISK becomes the path of the clone
DiskAttributes(attrs, clone_dst) ==
    Put(attrs, "path", zvol_name_to_path(clone_dst))

\* lines 64-68 and 112-114: zfs.snapshot.clone, the ledger entry, the new path
SnapClone(s) ==
    /\ s \in procs
    /\ pc[s] = "snap_clone"
    /\ \E ok \in BOOLEAN :
          IF /\ ok
             /\ zv[s].zvol_snapshot \in SnapIds
             /\ zv[s].clone_dst \notin DatasetIds
          THEN /\ datasets' = datasets \cup { [id |-> zv[s].clone_dst, by |-> s] }
               /\ created_clones' = [created_clones EXCEPT ![s] =
                                        AppendClone(@, zv[s].clone_dst)]
               /\ item' = [item EXCEPT ![s] = Put(@, "attributes",
                              DiskAttributes(@["attributes"], zv[s].clone_dst))]
               /\ pc' = [pc EXCEPT ![s] = "device_create"]
               /\ Logged(s, "zfs.snapshot.clone", zv[s].clone_dst, NoErr)
               /\ UNCHANGED <<e, rb>>
          ELSE /\ Except(s, Err(s, "zfs.snapshot.clone"))
               /\ Logged(s, "zfs.snapshot.clone", zv[s].clone_dst,
                         Err(s, "zfs.snapshot.clone"))
               /\ created_clones' = [created_clones EXCEPT ![s] =
                                        LedgerOnFailure(@, zv[s].clone_dst)]
               /\ UNCHANGED <<datasets, item>>
    /\ UNCHANGED <<dsVars, ssVars>>
    /\ UNCHANGED <<procs, vms, devs, snaps, nextPort, args, vm, new_vm,
                   devices, zv, created_snaps, result, warnings>>

\* ---------------------------------------------------------------- rollback
\* the handler ends without raising and the method returns
Reraised_swallowed(caught, last) == RetTrue

\* raising whatever exception was seen last instead of the one caught
Reraised_latest(caught, last) == IF last # NoErr THEN last ELSE caught

\* the exception raised at line 136
Reraised(caught, last) == caught

\* an entry whose compensation call failed is tried again
RestAfter_retry(todo, failed) == IF failed THEN todo ELSE Tail(todo)

\* the rollback loop ends at the entry whose compensation call failed
RestAfter_giveUp(todo, failed) == IF failed THEN <<>> ELSE Tail(todo)

\* lines 121-125 and 126-135: the inner handlers log the failure and the loop
\* goes on with the next entry
RestAfter(todo, failed) == Tail(todo)

\* the handler deletes the entity it created
EntitiesAfterRollback_deleted(records, id) == { v \in records : v.id # id }

\* lines 120-136: the handler makes no call to the entity store
EntitiesAfterRollback(records, id) == records

\* lines 129-133: the arguments of zfs.snapshot.remove
RemoveArgs(dataset, snap) ==
    [dataset |-> dataset, name |-> snap, defer_delete |-> TRUE]

\* lines 121-125: one iteration of the loop over the clones
RollbackClone(s) ==
    /\ s \in procs
    /\ pc[s] = "rb_clones"
    /\ IF rb[s] = <<>>
       THEN /\ rb' = [rb EXCEPT ![s] = RollbackOrder(created_snaps[s])]
            /\ pc' = [pc EXCEPT ![s] = "rb_snaps"]
            /\ UNCHANGED <<datasets, log, warnings>>
       ELSE LET i == Head(rb[s])
            IN  /\ UNCHANGED pc
                /\ \E ok \in BOOLEAN :
                      /\ rb' = [rb EXCEPT ![s] = RestAfter(@, ~ok)]
                      /\ IF ok
                         THEN /\ datasets' = { d \in datasets : d.id # i }
                              /\ Logged(s, "zfs.dataset.delete", i, NoErr)
                              /\ UNCHANGED warnings
                         ELSE /\ Logged(s, "zfs.dataset.delete", i,
                                        Err(s, "zfs.dataset.delete"))
                              /\ warnings' = [warnings EXCEPT ![s] = Append(@,
                                    <<"Rollback of VM clone left dangling zvol: ">> \o i)]
                              /\ UNCHANGED datasets
    /\ UNCHANGED <<dsVars, ssVars>>
    /\ UNCHANGED <<procs, vms, devs, snaps, nextPort, args, vm, new_vm,
                   devices, item, zv, created_snaps, created_clones, e,
                   result>>

\* lines 126-136: one iteration of the loop over the snapshots; after the
\* last one the exception caught at line 120 is raised
RollbackSnap(s) ==
    /\ s \in procs
    /\ pc[s] = "rb_snaps"
    /\ IF rb[s] = <<>>
       THEN /\ pc' = [pc EXCEPT ![s] = "raised"]
            /\ result' = [result EXCEPT ![s] =
                  Reraised(e[s], IF log[s] = <<>> THEN NoErr
                                 ELSE log[s][Len(log[s])].err)]
            /\ vms' = EntitiesAfterRollback(vms, new_vm[s])
            /\ UNCHANGED <<rb, snaps, log, warnings>>
       ELSE LET i == Head(rb[s])
                parts == Split(i)
                left == <<"Rollback of VM clone left dangling snapshot: ">> \o i
            IN  /\ UNCHANGED <<pc, result, vms>>
                /\ IF Len(parts) # 2
                   THEN \* dataset, snap = i.split('@') raises ValueError
                        /\ rb' = [rb EXCEPT ![s] = RestAfter(@, TRUE)]
                        /\ warnings' = [warnings EXCEPT ![s] = Append(@, left)]
                        /\ UNCHANGED <<snaps, log>>
                   ELSE \E ok \in BOOLEAN :
                          /\ rb' = [rb EXCEPT ![s] = RestAfter(@, ~ok)]
                          /\ IF ok
                             THEN /\ snaps' = { x \in snaps :
                                                  x.id # SnapId(parts[1], parts[2]) }
                                  /\ Logged(s, "zfs.snapshot.remove",
                                            RemoveArgs(parts[1], parts[2]), NoErr)
                                  /\ UNCHANGED warnings
                             ELSE /\ Logged(s, "zfs.snapshot.remove",
                                            RemoveArgs(parts[1], parts[2]),
                                            Err(s, "zfs.snapshot.remove"))
                                  /\ warnings' = [warnings EXCEPT ![s] = Append(@, left)]
                                  /\ UNCHANGED snaps
    /\ UNCHANGED <<dsVars, ssVars>>
    /\ UNCHANGED <<procs, devs, datasets, nextPort, args, vm, new_vm,
                   devices, item, zv, created_snaps, created_clones, e>>


\* ------------------------------------------------------ zfs.dataset actions
CallError(errno, detail) == [kind |-> "CallError", errno |-> errno, detail |-> detail]

\* the items in front of the first invalid one are applied
AppliedOnError_upToInvalid(props, properties) ==
    LET bad == CHOOSE n \in 1..Len(properties) :
                   /\ ItemErrors(properties[n].k, properties[n].v, props) # <<>>
                   /\ \A m \in 1..(n - 1) :
                         ItemErrors(properties[m].k, properties[m].v, props) = <<>>
    IN  ApplyItems(props, properties, bad - 1)

\* line 247: verrors.check() raises before update_properties is called
AppliedOnError(props, properties) == props

\* lines 167-184 and 232-252: do_update(id, data), the validation and the
\* update of the properties in dict order; the store may fail at any item
DoUpdate(id, data) ==
    /\ dpc = "idle"
    /\ dpc' = "done"
    /\ dcall' = [NoCall EXCEPT !.op = "update", !.args = data]
    /\ UNCHANGED <<cmds, sagaVars, ssVars>>
    /\ IF ~zds.exists
       THEN \* zfs.get_dataset raises ZFSException
            /\ dresult' = CallError("EFAULT", <<"Failed to update dataset">>)
            /\ UNCHANGED <<zds, handed>>
       ELSE LET properties == Reordered(data, LastProps)
                verrors == Verrors(properties, zds.props)
            IN  IF verrors # <<>>
                THEN /\ dresult' = [kind |-> "ValidationErrors", errno |-> "EINVAL",
                                    detail |-> verrors]
                     /\ zds' = [zds EXCEPT !.props =
                                   AppliedOnError(@, properties)]
                     /\ UNCHANGED handed
                ELSE \E n \in 0..Len(properties), fails \in BOOLEAN :
                        /\ fails => n < Len(properties)
                        /\ ~fails => n = Len(properties)
                        /\ zds' = [zds EXCEPT !.props = ApplyItems(@, properties, n)]
                        /\ handed' = SubSeq(Keys(properties), 1,
                                            IF fails THEN n + 1 ELSE n)
                        /\ dresult' = IF fails
                                      THEN CallError("EFAULT", <<"Failed to update properties">>)
                                      ELSE [kind |-> "data", errno |-> "none",
                                            detail |-> Keys(data)]

\* a name without '/' passes
NameErrors_never(name) == <<>>

\* lines 132-133: the validation error of a root-level name
NameErrors(name) ==
    IF ~Contains(name, "/")
    THEN <<[attr |-> <<"name">>,
            msg |-> "You need a full name, e.g. pool/newdataset"]>>
    ELSE <<>>

\* lines 137-149: the parameters handed to pool.create
CreateParams(data) ==
    LET params == Pop(data.properties, <<"sparse">>)
    IN  IF data.type = "FILESYSTEM" /\ <<"xattr">> \notin DOMAIN params
        THEN Put(params, <<"xattr">>, "sa") ELSE params

\* lines 118-155: do_create(data); pool.create fails when the dataset is
\* there already, and may fail for reasons of its own
DatasetDoCreate(data) ==
    /\ dpc = "idle"
    /\ dpc' = "done"
    /\ dcall' = [NoCall EXCEPT !.op = "create", !.args = data]
    /\ UNCHANGED <<handed, cmds, sagaVars, ssVars>>
    /\ IF NameErrors(data.name) # <<>>
       THEN /\ dresult' = [kind |-> "ValidationErrors", errno |-> "EINVAL",
                           detail |-> NameErrors(data.name)]
            /\ UNCHANGED zds
       ELSE \E ok \in BOOLEAN :
              IF ok /\ ~zds.exists
              THEN /\ zds' = [exists |-> TRUE,
                              props |-> [k \in DOMAIN CreateParams(data) |->
                                           [value |-> CreateParams(data)[k],
                                            source |-> "LOCAL"]]]
                   /\ dresult' = [kind |-> "created", errno |-> "none",
                                  detail |-> data.name]
              ELSE /\ dresult' = CallError("EFAULT", <<"Failed to create dataset">>)
                   /\ UNCHANGED zds

\* lines 195-206: do_delete(id, options) up to zfs recv -A; aborting a
\* receive may destroy the dataset that the receive had created
DoDelete(id, force, recursive) ==
    /\ dpc = "idle"
    /\ dpc' = "destroy"
    /\ \E returncode \in {0, 1}, destroyed \in BOOLEAN :
          /\ returncode = 0 => zds.exists
          /\ destroyed => returncode = 0
          /\ dcall' = [op |-> "delete", recv |-> returncode,
                       args |-> DestroyArgs(force, recursive), stderr |-> <<>>]
          /\ zds' = [zds EXCEPT !.exists = @ /\ ~destroyed]
    /\ cmds' = Append(cmds, <<"zfs", "recv", "-A">> \o id)
    /\ UNCHANGED <<handed, dresult, sagaVars, ssVars>>

\* lines 209-222: zfs destroy and what do_delete makes of its failure
Destroy ==
    /\ dpc = "destroy"
    /\ dpc' = "done"
    /\ cmds' = Append(cmds, <<"zfs", "destroy">> \o dcall.args \o TargetId)
    /\ \E stderr \in DestroyFailures \cup {NoDataset, <<>>} :
          /\ stderr = NoDataset <=> ~zds.exists
          /\ dcall' = [dcall EXCEPT !.stderr = stderr]
          /\ IF stderr = <<>>
             THEN /\ zds' = [zds EXCEPT !.exists = FALSE]
                  /\ dresult' = [kind |-> "True", errno |-> "none", detail |-> <<>>]
             ELSE /\ UNCHANGED zds
                  /\ dresult' =
                        IF Tolerated(dcall.recv, stderr)
                        THEN [kind |-> "None", errno |-> "none", detail |-> <<>>]
                        ELSE CallError(DeleteErrno(Strip(stderr)),
                                       <<"Failed to delete dataset: ">> \o Strip(stderr))
    /\ UNCHANGED <<handed, sagaVars, ssVars>>

\* one call at a time: a request is drawn only while no call is in progress
DatasetNext ==
    \/ dpc = "idle" /\ \E data \in CreateRequests : DatasetDoCreate(data)
    \/ dpc = "idle" /\ \E data \in Batches : DoUpdate(TargetId, data)
    \/ \E force, recursive \in BOOLEAN : DoDelete(TargetId, force, recursive)
    \/ Destroy

\* ------------------------------------------------------------ smb.sharesec
\* Samba serves the share of home directories as [homes], any other share
\* under its name, and compares share names without regard to case
ServedAs(share) == IF share.home THEN Lower(HOMES) ELSE Lower(share.name)

Serves(share_name) ==
    \E j \in 1..Len(cifs_share) : ServedAs(cifs_share[j]) = Lower(share_name)

\* the key under which Samba keeps the security descriptor of a share
SambaKey(share_name) == <<"SECDESC/">> \o Lower(share_name)

\* the security descriptor sharesec(1) writes for an ACL given as text, in
\* the form tdb.fetch returns it
Encode(text) == <<"AQAE">> \o text

\* what Samba applies to a share that has no entry: Everyone, full control
DefaultAcl == SidEveryone \o <<":", "ALLOWED", "/0x0/", "FULL">>

\* the key is made from the name as it was passed
TdbKey_asPassed(share_name) == <<"SECDESC/">> \o share_name

\* lines 52, 61: the key fetch() and store() use
TdbKey(share_name) == <<"SECDESC/">> \o Lower(share_name)

\* lines 263-266 and 269: the rows sharing.smb.query finds for a share name
Matching(share_name) ==
    IF Upper(share_name) = HOMES
    THEN SelectSeq(cifs_share, LAMBDA row : row.home)
    ELSE SelectSeq(cifs_share, LAMBDA row : Lower(row.name) = Lower(share_name))

\* idmap.name_to_sid
NameToSid(name) == IF name = NameRoot THEN SidRoot ELSE SidUsers

\* lines 233-234: an entry without SID and without name is refused
AeInvalid(ae) == ae.ae_who_sid = None /\ ae.ae_who_name = None

\* lines 236-240: the text form of one entry
AeToString(ae) ==
    (IF ae.ae_who_sid = None THEN NameToSid(ae.ae_who_name) ELSE ae.ae_who_sid)
        \o <<":", ae.ae_type, "/0x0/", ae.ae_perm>>

\* sep.join(list)
RECURSIVE Join(_, _)
Join(list, sep) ==
    IF list = <<>> THEN <<>>
    ELSE IF Len(list) = 1 THEN list[1]
    ELSE list[1] \o <<sep>> \o Join(Tail(list), sep)

\* str.split(): the runs between blanks
RECURSIVE SplitBlank(_, _)
SplitBlank(text, run) ==
    IF text = <<>> THEN (IF run = <<>> THEN <<>> ELSE <<run>>)
    ELSE IF Head(text) = " "
    THEN (IF run = <<>> THEN <<>> ELSE <<run>>) \o SplitBlank(Tail(text), <<>>)
    ELSE SplitBlank(Tail(text), Append(run, Head(text)))

\* lines 272-276: the args of sharesec --replace
ReplaceArgs(share_acl) ==
    Join([j \in 1..Len(share_acl) |-> AeToString(share_acl[j])], ",")

\* line 297: a stored ACL in the text form
IsLegacy(share_acl) == share_acl # <<>> /\ share_acl[1] = "S-1-"

\* the stored ACL is written under the name of the row, home share or not
FlushName_rowName(share) == share.name

\* line 304: the name under which the stored ACL of a row is written back
FlushName(share) == IF share.home THEN HOMES ELSE share.name

\* share_info.tdb with one entry written
Written(tdb, key, payload) ==
    [k \in DOMAIN tdb \cup {key} |-> IF k = key THEN payload ELSE tdb[k]]

ShareResult(op, kind, detail) ==
    [op |-> op, kind |-> kind,
     errno |-> IF kind = "CallError" THEN "EFAULT" ELSE "none", detail |-> detail]

\* lines 244-290: setacl(data, db_commit); the sharesec run, the fetch and
\* the datastore update may each fail
SetAcl(data, db_commit) ==
    /\ spc = "idle"
    /\ setacls < MaxSetAcl
    /\ setacls' = setacls + 1
    /\ UNCHANGED <<spc, shares, sagaVars, dsVars>>
    /\ LET rows == Matching(data.share_name)
           joined == ReplaceArgs(data.share_acl)
           key == TdbKey(data.share_name)
           replaced == Written(share_info, SambaKey(data.share_name), Encode(joined))
       IN  IF rows = <<>>
           THEN /\ sresult' = ShareResult("setacl", "CallError", <<"share does not exist">>)
                /\ UNCHANGED <<cifs_share, share_info, committed, restore>>
           ELSE IF \E j \in 1..Len(data.share_acl) : AeInvalid(data.share_acl[j])
           THEN /\ sresult' = [ShareResult("setacl", "CallError",
                                  <<"ACL Entry must have ae_who_sid or ae_who_name.">>)
                               EXCEPT !.errno = "EINVAL"]
                /\ UNCHANGED <<cifs_share, share_info, committed, restore>>
           ELSE \E reached \in {"sharesec", "fetch", "update", "return"} :
                  IF reached = "sharesec" \/ ~Serves(data.share_name)
                  THEN /\ sresult' = ShareResult("setacl", "CallError",
                                         <<"sharesec --replace failed with error: ">>)
                       /\ UNCHANGED <<cifs_share, share_info, committed, restore>>
                  ELSE /\ share_info' = replaced
                       /\ IF ~db_commit
                          THEN /\ sresult' = ShareResult("setacl", "None", <<>>)
                               /\ UNCHANGED <<cifs_share, committed, restore>>
                          ELSE IF reached \in {"fetch", "update"}
                                  \/ key \notin DOMAIN replaced
                          THEN /\ sresult' = ShareResult("setacl", "Exception", <<reached>>)
                               /\ UNCHANGED <<cifs_share, committed, restore>>
                          ELSE LET new_acl_blob == replaced[key]
                                   id == rows[1].id
                               IN  /\ cifs_share' =
                                        [j \in 1..Len(cifs_share) |->
                                            IF cifs_share[j].id = id
                                            THEN [cifs_share[j] EXCEPT
                                                     !.share_acl = new_acl_blob]
                                            ELSE cifs_share[j]]
                                   /\ committed' = [committed EXCEPT ![id] =
                                        [payload |-> new_acl_blob, args |-> joined]]
                                   /\ restore' = [restore EXCEPT ![id] = "set"]
                                   /\ sresult' = ShareResult("setacl", "None", <<"committed">>)

\* the file share_info.tdb is removed while no call runs
LoseTdb ==
    /\ spc = "idle"
    /\ share_info # NoTdb
    /\ share_info' = NoTdb
    /\ restore' = [id \in DOMAIN restore |->
                     IF restore[id] \in {"set", "restored"} THEN "lost"
                     ELSE restore[id]]
    /\ sresult' = ShareResult("rm", "None", <<>>)
    /\ UNCHANGED <<cifs_share, spc, shares, setacls, committed, sagaVars, dsVars>>

\* line 297: datastore.query of the rows of sharing.cifs_share
FlushQuery ==
    /\ spc = "idle"
    /\ \E ok \in BOOLEAN :
          IF ok
          THEN /\ shares' = cifs_share
               /\ spc' = "flush"
               /\ UNCHANGED sresult
          ELSE /\ sresult' = ShareResult("_flush_share_info", "Exception", <<"query">>)
               /\ UNCHANGED <<shares, spc>>
    /\ UNCHANGED <<cifs_share, share_info, setacls, committed, restore, sagaVars,
                   dsVars>>

\* the rows whose ACL was lost have been visited
Restored(state) ==
    [id \in DOMAIN state |-> IF state[id] = "lost" THEN "restored" ELSE state[id]]

\* lines 298-307: one iteration of the loop over the rows, or its end; a
\* call that fails ends the loop
FlushShare ==
    /\ spc = "flush"
    /\ UNCHANGED <<cifs_share, setacls, committed, sagaVars, dsVars>>
    /\ IF shares = <<>>
       THEN /\ spc' = "idle"
            /\ sresult' = ShareResult("_flush_share_info", "None", <<>>)
            /\ restore' = Restored(restore)
            /\ UNCHANGED <<share_info, shares>>
       ELSE LET share == Head(shares)
                raised == /\ spc' = "idle"
                          /\ shares' = <<>>
                          /\ sresult' = ShareResult("_flush_share_info", "CallError",
                                                    <<share.id>>)
                          /\ UNCHANGED <<share_info, restore>>
            IN  IF IsLegacy(share.share_acl)
                THEN \E ok \in BOOLEAN :
                       IF ok /\ Serves(share.name)
                       THEN /\ share_info' = Written(share_info, SambaKey(share.name),
                                 Encode(Join(SplitBlank(share.share_acl, <<>>), ",")))
                            /\ shares' = Tail(shares)
                            /\ UNCHANGED <<spc, sresult, restore>>
                       ELSE raised
                ELSE IF share.share_acl # <<>>
                THEN \E ok \in BOOLEAN :
                       IF ok
                       THEN /\ share_info' = Written(share_info,
                                 TdbKey(FlushName(share)), share.share_acl)
                            /\ shares' = Tail(shares)
                            /\ UNCHANGED <<spc, sresult, restore>>
                       ELSE raised
                ELSE /\ shares' = Tail(shares)
                     /\ UNCHANGED <<share_info, spc, sresult, restore>>

\* one call at a time
ShareSecNext ==
    \/ /\ spc = "idle" /\ setacls < MaxSetAcl
       /\ \E data \in SetAclRequests, db_commit \in BOOLEAN : SetAcl(data, db_commit)
    \/ LoseTdb
    \/ FlushQuery
    \/ FlushShare

\* ----------------------------------------------------------- specification
SagaNext ==
    \E s \in Sagas :
        \/ \E id \in {SrcId, NoId}, name \in Overrides : Clone(s, id, name)
        \/ NextCloneName(s)
        \/ DoCreate(s)
        \/ ForItem(s)
        \/ PortWizard(s)
        \/ DeviceCreate(s)
        \/ ZvolQuery(s)
        \/ SnapQuery(s)
        \/ SnapCreate(s)
        \/ CloneQuery(s)
        \/ SnapClone(s)
        \/ RollbackClone(s)
        \/ RollbackSnap(s)

vars == <<sagaVars, dsVars, ssVars>>

\* one clone() call at a time
Init == SagaInit({1}) /\ DatasetIdle /\ ShareSecIdle

Next == SagaNext

Spec == Init /\ [][Next]_vars

\* a step of the clone() call of saga s
SagaStep(s) ==
    \/ \E id \in {SrcId, NoId}, name \in Overrides : Clone(s, id, name)
    \/ NextCloneName(s)
    \/ DoCreate(s)
    \/ ForItem(s)
    \/ PortWizard(s)
    \/ DeviceCreate(s)
    \/ ZvolQuery(s)
    \/ SnapQuery(s)
    \/ SnapCreate(s)
    \/ CloneQuery(s)
    \/ SnapClone(s)
    \/ RollbackClone(s)
    \/ RollbackSnap(s)

\* every call that clone() awaits returns, and the coroutine then runs on
SpecFair == Spec /\ \A s \in Sagas : WF_vars(SagaStep(s))

\* the devices of the entity that concurrent calls clone
ConcDevices == <<Display(11), Disk(12, dsA)>>

\* two clone() calls of the same entity run interleaved (the method is not
\* serialised); an earlier clone has left the names '<vm1>_clone1' behind
InitConc ==
    /\ SagaInitOf({1, 2}, {VM1}, {ConcDevices}, {{}}, {{1}}, {FALSE})
    /\ DatasetIdle
    /\ ShareSecIdle

SpecConc == InitConc /\ [][Next]_vars

\* one zfs.dataset call
InitDataset == SagaIdle /\ DatasetInit /\ ShareSecIdle

NextDataset == DatasetNext

SpecDataset == InitDataset /\ [][NextDataset]_vars

\* smb.sharesec calls, one after the other, and the loss of share_info.tdb
InitShareSec == SagaIdle /\ DatasetIdle /\ ShareSecInit

NextShareSec == ShareSecNext

SpecShareSec == InitShareSec /\ [][NextShareSec]_vars

\* ================================================================== claims
CompOps == {"zfs.dataset.delete", "zfs.snapshot.remove"}

ZvolSteps == {"zvol_query", "snap_query", "snap_create", "clone_query", "snap_clone"}

\* the errors of the compensation calls saga s has made
CompErrors(s) ==
    { log[s][j].err : j \in { x \in 1..Len(log[s]) : log[s][x].op \in CompOps } }

\* the exception of the first call of saga s that failed
FirstError(s) ==
    LET j == CHOOSE x \in 1..Len(log[s]) :
                 /\ log[s][x].err # NoErr
                 /\ \A y \in 1..(x - 1) : log[s][y].err = NoErr
    IN  log[s][j].err

\* clone() has raised after running the rollback loops
RolledBack(s) == pc[s] = "raised" /\ e[s] # NoErr

\* the entity that saga s clones
Source(s) == CHOOSE v \in vms : v.id = args[s].id

\* the snapshot names that exist under a zvol
SnapNamesOf(zvol) ==
    { Split(x)[2] : x \in { y \in SnapIds : Split(y)[1] = zvol } }

\* the suffixes of the datasets named '<zvol>_<suffix>'
CloneSuffixesOf(zvol) ==
    { SubSeq(d, Len(zvol) + 2, Len(d)) :
        d \in { y \in DatasetIds : /\ Len(y) > Len(zvol) + 1
                                   /\ SubSeq(y, 1, Len(zvol) + 1) = zvol \o <<"_">> } }

\* the strings '<prefix>_clone<k>' for the indices the model can reach
Suffixed(prefix) == { prefix \o ZVOL_CLONE_SUFFIX \o IntToStr(k) : k \in 0..(MaxIdx + 3) }

\* C1: when clone() raises after a rollback in which every delete and every
\* snapshot-remove call succeeded, no clone dataset and no snapshot that this
\* call created is left in the store.
C1_RollbackLeavesNothing ==
    \A s \in procs :
        (RolledBack(s) /\ CompErrors(s) \subseteq {NoErr})
            => /\ \A d \in datasets : d.by # s
               /\ \A x \in snaps : x.by # s

\* a later DISK device failed in its snapshot/clone step after an earlier
\* device had been cloned, and the rollback has removed everything
C1_Witness ==
    \E s \in procs :
        /\ RolledBack(s)
        /\ CompErrors(s) = {NoErr}
        /\ Len(created_clones[s]) >= 1
        /\ Len(created_snaps[s]) > Len(created_clones[s])
        /\ e[s].op = "zfs.snapshot.clone"

\* C2: the error clone() raises after a rollback is the error of the call
\* that failed first, never the error of a compensation call.
C2_OriginalErrorReraised ==
    \A s \in procs :
        RolledBack(s) => /\ result[s] = FirstError(s)
                         /\ result[s].op \notin CompOps

\* clone() has raised although a delete and a snapshot-remove call failed too
C2_Witness ==
    \E s \in procs :
        /\ RolledBack(s)
        /\ \E x \in CompErrors(s) : x.op = "zfs.dataset.delete"
        /\ \E x \in CompErrors(s) : x.op = "zfs.snapshot.remove"

\* C3: a name that leaves an allocation loop is not in the set of names that
\* existed when the loop made its last existence check (entity names,
\* snapshots of the zvol, datasets).
C3_AllocatedNameIsFree ==
    [][\A s \in procs :
        /\ (pc[s] = "next_name" /\ pc'[s] = "do_create" /\ args[s].name = None)
              => vm'[s].name \notin VmNames
        /\ (pc[s] = "snap_query" /\ pc'[s] = "snap_create")
              => SnapId(zv'[s].zvol, zv'[s].snapshot_name) \notin SnapIds
        /\ (pc[s] = "clone_query" /\ pc'[s] = "snap_clone")
              => CloneDst(zv'[s].zvol, zv'[s].clone_suffix) \notin DatasetIds]_vars

\* all three loops had to skip names that were taken
C3_Witness ==
    \E s \in procs :
        /\ pc[s] = "snap_clone"
        /\ zv[s].i >= 2
        /\ zv[s].snapshot_name # zv[s].name
        /\ args[s].name = None
        /\ vm[s].name # Source(s).name \o ZVOL_CLONE_SUFFIX \o <<"0">>

\* base 'foo_clone3', the only snapshot of the zvol is 'foo_clone3'
C4_SnapCase(s) ==
    /\ s \in procs
    /\ pc[s] = "snap_create"
    /\ zv[s].name = FOO3
    /\ SnapNamesOf(zv[s].zvol) = {FOO3}

\* base 'foo_clone3', the only dataset '<zvol>_...' is '<zvol>_foo_clone3'
C4_CloneCase(s) ==
    /\ s \in procs
    /\ pc[s] = "snap_clone"
    /\ zv[s].name = FOO3
    /\ CloneSuffixesOf(zv[s].zvol) = {FOO3}

\* C4 as stated: from base 'foo_clone3', with 'foo_clone3' the only existing
\* name, the snapshot (clone target) name allocated is 'foo_clone4'.
C4_Original ==
    \A s \in procs :
        /\ C4_SnapCase(s) => zv[s].snapshot_name = FOO \o ZVOL_CLONE_SUFFIX \o <<"4">>
        /\ C4_CloneCase(s) => zv[s].clone_suffix = FOO \o ZVOL_CLONE_SUFFIX \o <<"4">>

\* C4 amended: from base 'foo_clone3', with 'foo_clone3' the only existing
\* name, the snapshot (clone target) name allocated is 'foo_clone0': the
\* numeric suffix is replaced and counting restarts at 0; the name is never
\* 'foo_clone3_clone0'.
C4_SuffixReplacedFromZero ==
    \A s \in procs :
        /\ C4_SnapCase(s) => zv[s].snapshot_name = FOO \o ZVOL_CLONE_SUFFIX \o <<"0">>
        /\ C4_CloneCase(s) =>
              /\ zv[s].clone_suffix = FOO \o ZVOL_CLONE_SUFFIX \o <<"0">>
              /\ zv[s].clone_dst = <<"tank/dsA", "_", "foo", "_clone", "0">>

\* both loops have allocated from 'foo_clone3' against {'foo_clone3'}
C4_Witness ==
    \E s \in procs :
        /\ C4_CloneCase(s)
        /\ created_snaps[s] = <<SnapId(dsA, FOO \o ZVOL_CLONE_SUFFIX \o <<"0">>)>>
        /\ SnapId(dsA, FOO3) \in SnapIds

\* clone() without a name, of a source whose name ends in '_clone<digits>',
\* has computed the name of the new entity
C5_Case(s) ==
    /\ s \in procs
    /\ pc[s] = "do_create"
    /\ args[s].name = None
    /\ ZVOL_CLONE_RE(Source(s).name)

\* C5 as stated: the new entity name is '<prefix>_clone<N>', the numeric suffix
\* of the source name replaced, and not '<source name>_clone<N>'.
C5_Original ==
    \A s \in procs :
        C5_Case(s) => /\ vm[s].name \in Suffixed(ReGroup1(Source(s).name))
                      /\ vm[s].name \notin Suffixed(Source(s).name)

\* C5 amended: entity-name allocation appends: for a source whose name already
\* ends in '_clone<digits>' the new entity name is '<source name>_clone<N>'
\* (from 'foo_clone3': 'foo_clone3_clone<N>'), with the first N from 0 whose
\* name no entity has; the existing suffix is kept.
C5_EntityNameAppendsSuffix ==
    \A s \in procs :
        C5_Case(s) =>
            \E N \in 0..MaxIdx :
                /\ vm[s].name = Source(s).name \o ZVOL_CLONE_SUFFIX \o IntToStr(N)
                /\ vm[s].name \notin VmNames
                /\ \A j \in 0..(N - 1) :
                      Source(s).name \o ZVOL_CLONE_SUFFIX \o IntToStr(j) \in VmNames

\* 'foo_clone3' is cloned and 'foo_clone3_clone0' is taken
C5_Witness ==
    \E s \in procs :
        /\ C5_Case(s)
        /\ Source(s).name = FOO3
        /\ vm[s].name = <<"foo", "_clone", "3", "_clone", "1">>

\* C6: without a name passed, for a source name without clone suffix, the new
\* entity name is '<source name>_clone<k>' for the smallest k >= 0 such that
\* no entity had this name when the entity names were queried.
C6_SmallestFreeIndex ==
    [][\A s \in procs :
        (/\ pc[s] = "next_name" /\ pc'[s] = "do_create"
         /\ args[s].name = None
         /\ ~ZVOL_CLONE_RE(vm[s].name))
        => \E k \in 0..MaxIdx :
              /\ vm'[s].name = vm[s].name \o ZVOL_CLONE_SUFFIX \o IntToStr(k)
              /\ vm'[s].name \notin VmNames
              /\ \A j \in 0..(k - 1) :
                    vm[s].name \o ZVOL_CLONE_SUFFIX \o IntToStr(j) \in VmNames]_vars

\* index 0 was free below an index that is taken, and was chosen
C6_Witness ==
    \E s \in procs :
        /\ pc[s] = "do_create"
        /\ args[s].name = None
        /\ Source(s).name = VM1
        /\ vm[s].name = <<"vm", "1", "_clone", "0">>
        /\ <<"vm", "1", "_clone", "1">> \in VmNames

\* clone() of 'vm1' with the devices [DISK(dsA), RAW], no name passed, has
\* returned True
C7_Case(s) ==
    /\ s \in procs
    /\ pc[s] = "returned"
    /\ args[s].name = None
    /\ Source(s).name = VM1
    /\ Source(s).devices = <<Disk(11, dsA), Raw(12)>>

\* the device records of the entity that saga s created
DevicesOf(s) == { j \in 1..Len(devs) : devs[j]["vm"] = new_vm[s] }

\* C7: cloning 'vm1' with devices [DISK(dsA), RAW] creates exactly one device
\* record for the new entity, a DISK whose path is not the path of dsA and is
\* the path of a dataset '<dsA>_vm1<suffix>'; the RAW device gets no record
\* and a warning is logged for it.
C7_FullCloneScenario ==
    \A s \in procs :
        C7_Case(s) =>
            /\ Cardinality(DevicesOf(s)) = 1
            /\ \A j \in DevicesOf(s) :
                  LET path == devs[j]["attributes"]["path"]
                  IN  /\ devs[j]["dtype"] = "DISK"
                      /\ "id" \notin DOMAIN devs[j]
                      /\ path # zvol_name_to_path(dsA)
                      /\ Len(path) > 5
                      /\ SubSeq(path, 1, 5) = <<"/dev/zvol/", "tank/dsA", "_", "vm", "1">>
                      /\ zvol_path_to_name(path) \in DatasetIds
            /\ warnings[s] = <<<<"RAW disks must be copied manually. Skipping...">>>>

\* the scenario has run to its end, past names that were taken
C7_Witness ==
    \E s \in procs :
        /\ C7_Case(s)
        /\ Len(devs) = 1
        /\ devs[1]["attributes"]["path"] =
              <<"/dev/zvol/", "tank/dsA", "_", "vm", "1", "_clone", "1">>

\* C8: whatever the order of the batch passed to do_update, quota and refquota
\* are given to the store after every other property of the batch.
C8_CapacityPropsLast ==
    /\ \A i, j \in 1..Len(handed) :
          (i < j /\ handed[i] \in {<<"quota">>, <<"refquota">>})
              => handed[j] \in {<<"quota">>, <<"refquota">>}
    /\ dresult.kind = "data" =>
          { handed[j] : j \in 1..Len(handed) }
              = { dresult.detail[j] : j \in 1..Len(dresult.detail) }

\* quota was listed before compression and was set after it
C8_Witness ==
    /\ dresult.kind = "data"
    /\ dresult.detail = << <<"quota">>, <<"compression">> >>
    /\ handed = << <<"compression">>, <<"quota">> >>
    /\ zds.props[<<"quota">>].source = "LOCAL"

\* C9: do_delete raises no error when zfs recv -A exited with status 0 and
\* zfs destroy then failed with 'dataset does not exist'.
C9_DeleteRaceTolerated ==
    (/\ dpc = "done"
     /\ dcall.op = "delete"
     /\ dcall.recv = 0
     /\ dcall.stderr = NoDataset)
        => dresult.kind = "None"

\* the abort of the receive has destroyed the dataset and do_delete returned
C9_Witness ==
    /\ dpc = "done"
    /\ dcall.op = "delete"
    /\ dcall.recv = 0
    /\ dcall.stderr = NoDataset
    /\ ~zds.exists
    /\ dresult.kind = "None"
    /\ Len(cmds) = 2

\* C10: when the caller passes a name, the entity record is created with this
\* very name, whatever entities exist, and this name is the base name of every
\* call of __clone_zvol.
C10_OverrideVerbatim ==
    \A s \in procs :
        args[s].name # None =>
            /\ (\E j \in 1..Len(log[s]) : log[s][j].op = "vm.query")
                  => vm[s].name = args[s].name
            /\ \A j \in 1..Len(log[s]) :
                  log[s][j].op = "vm.do_create" => log[s][j].arg = args[s].name
            /\ \A v \in vms : v.id = new_vm[s] => v.name = args[s].name
            /\ pc[s] \in ZvolSteps => zv[s].name = args[s].name

\* a name was passed, the record exists and a clone step runs with this base
C10_Witness ==
    \E s \in procs :
        /\ args[s].name = FOO3
        /\ \E v \in vms : v.id = new_vm[s] /\ v.name = FOO3
        /\ pc[s] = "snap_clone"
        /\ zv[s].name = FOO3
        /\ Cardinality(VmNames) > 2

\* every device of the source was handled and no call of saga s failed
AllProcessed(s) ==
    /\ pc[s] = "returned"
    /\ devices[s] = <<>>
    /\ \A j \in 1..Len(log[s]) : log[s][j].err = NoErr

\* C11 as stated: when all devices are processed without error, clone returns
\* the identifier of the new entity to the caller.
C11_Original ==
    \A s \in procs : AllProcessed(s) => result[s] = ReturnsId(new_vm[s])

\* C11: when all devices are processed without error, clone returns the boolean
\* True to the caller; the value carries neither the identifier nor the name of
\* the new entity, which the caller has to look up in the entity store.
C11_ReturnsTrue ==
    \A s \in procs :
        /\ AllProcessed(s) => /\ result[s] = RetTrue
                              /\ result[s] # ReturnsId(new_vm[s])
                              /\ \E v \in vms : v.id = new_vm[s] /\ v.name = vm[s].name
        /\ pc[s] = "returned" => AllProcessed(s)

\* a clone with three devices returned
C11_Witness ==
    \E s \in procs :
        /\ AllProcessed(s)
        /\ Cardinality(DevicesOf(s)) = 3
        /\ new_vm[s] # 0

\* the calls that create or remove a snapshot or a dataset
StoreWrites == CompOps \cup {"zfs.snapshot.create", "zfs.snapshot.clone"}

\* a call of saga s has failed and clone() is past it
Failing(s) ==
    /\ pc[s] \in {"rb_clones", "rb_snaps", "raised"}
    /\ \E j \in 1..Len(log[s]) : log[s][j].err # NoErr

\* C12: when vm.get_instance or vm.do_create fails, clone() raises this very
\* error, the failed call is the last call it makes, it has created no
\* snapshot and no dataset, and it issues no dataset delete and no snapshot
\* remove.
C12_FailureBeforeDevices ==
    \A s \in procs :
        (Failing(s) /\ FirstError(s).op \in {"vm.get_instance", "vm.do_create"})
            => /\ pc[s] = "raised" => result[s] = FirstError(s)
               /\ Len(log[s]) = FirstError(s).n
               /\ \A j \in 1..Len(log[s]) : log[s][j].op \notin StoreWrites
               /\ created_snaps[s] = <<>> /\ created_clones[s] = <<>>
               /\ { x \in snaps : x.by = s } = {}
               /\ { d \in datasets : d.by = s } = {}

\* vm.do_create failed inside the try block, the rollback loops ran over the
\* empty ledgers and clone() raised
C12_Witness ==
    \E s \in procs :
        /\ RolledBack(s)
        /\ e[s].op = "vm.do_create"
        /\ result[s] = e[s]
        /\ snaps # {}

CreateOps == {"zfs.snapshot.create", "zfs.snapshot.clone"}

\* C13: when the snapshot name (the clone target) that a saga found free exists
\* by the time the saga calls create, the call fails, the saga enters rollback
\* with this error and appends nothing to the ledger; from then on its
\* allocation variables never change, it makes only compensation calls, and
\* it raises the creation error.
C13_RaceEndsInRollback ==
    [][\A s \in procs :
        /\ (/\ pc[s] = "snap_create"
            /\ zv[s].zvol_snapshot \in SnapIds
            /\ pc'[s] # pc[s])
              => /\ pc'[s] = "rb_clones"
                 /\ e'[s] = Err(s, "zfs.snapshot.create")
                 /\ created_snaps'[s] = created_snaps[s]
        /\ (/\ pc[s] = "snap_clone"
            /\ zv[s].clone_dst \in DatasetIds
            /\ pc'[s] # pc[s])
              => /\ pc'[s] = "rb_clones"
                 /\ e'[s] = Err(s, "zfs.snapshot.clone")
                 /\ created_clones'[s] = created_clones[s]
        /\ e[s].op \in CreateOps
              => /\ e'[s] = e[s]
                 /\ zv'[s] = zv[s]
                 /\ pc'[s] \in {"rb_clones", "rb_snaps", "raised"}
                 /\ log'[s] # log[s] => log'[s][Len(log'[s])].op \in CompOps
                 /\ pc'[s] = "raised" => result'[s] = e[s]]_vars

\* a saga raised the error of its snapshot creation, and the snapshot of that
\* name is the one another saga created
C13_Witness ==
    \E s \in procs :
        /\ pc[s] = "raised"
        /\ e[s].op = "zfs.snapshot.create"
        /\ result[s] = e[s]
        /\ \E x \in snaps : x.id = zv[s].zvol_snapshot /\ x.by \notin {0, s}
        /\ Len(SelectSeq(log[s], LAMBDA c : c.op = "zfs.snapshot.create")) = 1

Rollback == {"rb_clones", "rb_snaps", "raised"}

Ended == {"returned", "raised"}

\* the outcome of saga s as far as it has one
OneOutcome(s) ==
    /\ pc[s] = "returned"
          => /\ result[s] = RetTrue
             /\ e[s] = NoErr
             /\ \A j \in 1..Len(log[s]) :
                    log[s][j].op \notin CompOps /\ log[s][j].err = NoErr
    /\ pc[s] = "raised"
          => /\ result[s] \notin {NoErr, RetTrue}
             /\ result[s] = FirstError(s)
    /\ pc[s] \notin Ended => result[s] = NoErr

\* C14: a clone() call that has ended either returned True, and then made no
\* compensation call and saw no call fail, or raised one error, the first
\* one; a call that has not ended has no outcome; a call in rollback stays in
\* rollback until it raises, and a call that has ended never changes its
\* outcome or makes another call.
C14_SingleOutcome ==
    [][\A s \in procs :
        /\ OneOutcome(s)'
        /\ pc[s] \in Rollback => pc'[s] \in Rollback /\ result'[s] # RetTrue
        /\ pc[s] \in Ended => /\ pc'[s] = pc[s]
                              /\ result'[s] = result[s]
                              /\ log'[s] = log[s]]_vars

\* a call raised the error of a clone creation after a rollback in which a
\* compensation call failed
C14_Witness ==
    \E s \in procs :
        /\ RolledBack(s)
        /\ result[s].op = "zfs.snapshot.clone"
        /\ CompErrors(s) # {NoErr}
        /\ Len(created_clones[s]) >= 1

\* the arguments of the calls of op that saga s made, in call order: of the
\* calls that succeeded when onlyOk, of all of them otherwise
ArgsOf(s, op, onlyOk) ==
    LET made == SelectSeq(log[s], LAMBDA c :
                    c.op = op /\ (onlyOk => c.err = NoErr))
    IN  [j \in 1..Len(made) |-> made[j].arg]

Range(seq) == { seq[j] : j \in 1..Len(seq) }

\* C15: in every state the snapshot ledger is the sequence of the snapshots
\* whose zfs.snapshot.create call succeeded in this call, and the clone ledger
\* the sequence of the datasets whose zfs.snapshot.clone call succeeded, both
\* in call order: a failed creation has no entry, and no state lies between a
\* successful creation and its entry. Whatever the store holds from this call
\* is in a ledger.
C15_LedgerExactness ==
    \A s \in procs :
        /\ created_snaps[s] = ArgsOf(s, "zfs.snapshot.create", TRUE)
        /\ created_clones[s] = ArgsOf(s, "zfs.snapshot.clone", TRUE)
        /\ { x.id : x \in { y \in snaps : y.by = s } } \subseteq Range(created_snaps[s])
        /\ { d.id : d \in { y \in datasets : y.by = s } }
              \subseteq Range(created_clones[s])

\* two devices were cloned and the snapshot creation of a third one failed
C15_Witness ==
    \E s \in procs :
        /\ Len(created_snaps[s]) = 2
        /\ Len(created_clones[s]) = 2
        /\ created_clones[s][1] # created_clones[s][2]
        /\ e[s].op = "zfs.snapshot.create"
        /\ Len(ArgsOf(s, "zfs.snapshot.create", FALSE)) = 3

\* the first Len(a) entries of b are a
IsPrefix(a, b) == Len(a) <= Len(b) /\ a = SubSeq(b, 1, Len(a))

\* the datasets saga s asked to delete, and the snapshots it asked to
\* remove, in call order
Deleted(s) == ArgsOf(s, "zfs.dataset.delete", FALSE)

RemoveCalls(s) == ArgsOf(s, "zfs.snapshot.remove", FALSE)

Removed(s) ==
    [j \in 1..Len(RemoveCalls(s)) |->
        SnapId(RemoveCalls(s)[j].dataset, RemoveCalls(s)[j].name)]

\* C16: the delete calls of a rollback follow the clone ledger backwards, the
\* snapshot remove calls, all with defer_delete, follow the snapshot ledger
\* backwards, and the first remove call comes after the delete call of every
\* entry of the clone ledger; when clone() raises both ledgers were walked to
\* their first entry.
C16_RollbackOrder ==
    \A s \in procs :
        /\ IsPrefix(Deleted(s), Reversed(created_clones[s]))
        /\ IsPrefix(Removed(s), Reversed(created_snaps[s]))
        /\ \A j \in 1..Len(RemoveCalls(s)) : RemoveCalls(s)[j].defer_delete
        /\ Removed(s) # <<>> => Deleted(s) = Reversed(created_clones[s])
        /\ \A j \in 1..(Len(log[s]) - 1) :
              log[s][j].op = "zfs.snapshot.remove"
                  => log[s][j + 1].op = "zfs.snapshot.remove"
        /\ RolledBack(s) => /\ Deleted(s) = Reversed(created_clones[s])
                            /\ Removed(s) = Reversed(created_snaps[s])

\* a rollback over two clones and three snapshots has ended
C16_Witness ==
    \E s \in procs :
        /\ RolledBack(s)
        /\ Len(Deleted(s)) = 2
        /\ Len(Removed(s)) = 3
        /\ Deleted(s)[1] # Deleted(s)[2]

\* how often x occurs in seq
Count(seq, x) == Cardinality({ j \in 1..Len(seq) : seq[j] = x })

\* the compensation calls of saga s that failed
FailedComp(s) ==
    { j \in 1..Len(log[s]) : log[s][j].op \in CompOps /\ log[s][j].err # NoErr }

\* C17: no ledger entry ever gets a second compensation call, and when clone()
\* raises after a rollback every entry of the clone ledger got exactly one
\* delete call and every entry of the snapshot ledger exactly one remove
\* call, however many of these calls failed; each failure left one warning.
C17_BestEffortRollback ==
    \A s \in procs :
        /\ \A x \in Range(Deleted(s)) : Count(Deleted(s), x) = 1
        /\ \A x \in Range(Removed(s)) : Count(Removed(s), x) = 1
        /\ RolledBack(s)
              => /\ \A x \in Range(created_clones[s]) : Count(Deleted(s), x) = 1
                 /\ \A x \in Range(created_snaps[s]) : Count(Removed(s), x) = 1
                 /\ Len(Deleted(s)) + Len(Removed(s))
                       = Len(created_clones[s]) + Len(created_snaps[s])
                 /\ Len(warnings[s]) >= Cardinality(FailedComp(s))

\* the first delete call and the first remove call failed, and the calls for
\* the other entries were made all the same
C17_Witness ==
    \E s \in procs :
        /\ RolledBack(s)
        /\ Len(created_clones[s]) = 2
        /\ Len(created_snaps[s]) = 3
        /\ \E j \in FailedComp(s) :
              /\ log[s][j].op = "zfs.dataset.delete"
              /\ log[s][j + 1].op = "zfs.dataset.delete"
        /\ \E j \in FailedComp(s) :
              /\ log[s][j].op = "zfs.snapshot.remove"
              /\ log[s][j - 1].op = "zfs.dataset.delete"
        /\ Cardinality(FailedComp(s)) = 2

\* the step of saga s from l to the handler of clone()
Fails(s, l) == pc[s] = l /\ pc'[s] = "rb_clones"

\* C18: when zfs.snapshot.clone fails, the snapshot the step has created is
\* the last entry of the snapshot ledger and stays there, the clone ledger
\* and both stores stay as they are, the failed call is the only call of the
\* step, and the error goes to the handler of clone().
C18_StepLeavesCleanup ==
    [][\A s \in procs :
        Fails(s, "snap_clone")
            => /\ e'[s] = Err(s, "zfs.snapshot.clone")
               /\ created_snaps[s] # <<>>
               /\ created_snaps[s][Len(created_snaps[s])] = zv[s].zvol_snapshot
               /\ \E y \in snaps' : y.id = zv[s].zvol_snapshot /\ y.by = s
               /\ created_snaps'[s] = created_snaps[s]
               /\ created_clones'[s] = created_clones[s]
               /\ snaps' = snaps /\ datasets' = datasets
               /\ log'[s] = Append(log[s],
                      Call("zfs.snapshot.clone", zv[s].clone_dst, e'[s]))]_vars

\* the clone of a second device has just failed: its snapshot exists and is
\* in the ledger, and no compensation call was made yet
C18_Witness ==
    \E s \in procs :
        /\ pc[s] = "rb_clones"
        /\ e[s].op = "zfs.snapshot.clone"
        /\ log[s][Len(log[s])].err = e[s]
        /\ Len(created_clones[s]) = 1
        /\ Len(created_snaps[s]) = 2
        /\ created_snaps[s][2] \in SnapIds

\* C19: when the zvol of a DISK device is not in the dataset store, the step
\* raises ENOENT from its first call: it has looked for no name, both ledgers
\* and both stores stay as they are.
C19_MissingZvol ==
    [][\A s \in procs :
        (pc[s] = "zvol_query" /\ zv[s].zvol \notin DatasetIds /\ pc'[s] # pc[s])
            => /\ pc'[s] = "rb_clones"
               /\ e'[s] = Err(s, "ENOENT")
               /\ log'[s] = Append(log[s],
                      Call("zfs.dataset.query", zv[s].zvol, e'[s]))
               /\ created_snaps'[s] = created_snaps[s]
               /\ created_clones'[s] = created_clones[s]
               /\ snaps' = snaps /\ datasets' = datasets]_vars

\* the zvol of the second DISK device is missing; the first one was cloned
C19_Witness ==
    \E s \in procs :
        /\ pc[s] = "rb_clones"
        /\ e[s].op = "ENOENT"
        /\ zv[s].zvol = dsGone
        /\ log[s][Len(log[s])].err = e[s]
        /\ Len(created_clones[s]) = 1
        /\ Len(created_snaps[s]) = 1

\* the records clone() has created for its new entity are in the stores
ResidualRecords(s) ==
    (pc[s] \in Rollback /\ new_vm[s] # 0)
        => /\ \E v \in vms : v.id = new_vm[s] /\ v.name = vm[s].name
           /\ Cardinality(DevicesOf(s))
                 = Len(ArgsOf(s, "vm.device.create", TRUE))

\* C20: once vm.do_create has succeeded, a clone() call that fails leaves the
\* entity record and every device record it created in the stores: no step
\* removes an entity or a device record, and the only calls of a rollback
\* are zfs.dataset.delete and zfs.snapshot.remove.
C20_ResidualEntity ==
    [][\A s \in procs :
        /\ ResidualRecords(s)'
        /\ vms \subseteq vms'
        /\ IsPrefix(devs, devs')
        /\ (pc[s] \in Rollback /\ log'[s] # log[s])
              => log'[s][Len(log'[s])].op \in CompOps]_vars

\* clone() raised after it had created the entity and two device records;
\* both are still there while the dataset of the DISK record is gone
C20_Witness ==
    \E s \in procs :
        /\ RolledBack(s)
        /\ new_vm[s] # 0
        /\ \E v \in vms : v.id = new_vm[s]
        /\ Cardinality(DevicesOf(s)) = 2
        /\ Len(created_clones[s]) = 2
        /\ { d \in datasets : d.by = s } = {}

\* the devices of the source that the loop of saga s has taken so far
Taken(s) ==
    SubSeq(Source(s).devices, 1, Len(Source(s).devices) - Len(devices[s]))

\* the device records of the new entity of saga s, in creation order
RecordsOf(s) == SelectSeq(devs, LAMBDA d : d["vm"] = new_vm[s])

\* the devices of seq that get a record, and the zvols of its DISK devices
Recorded(seq) == SelectSeq(seq, LAMBDA d : d["dtype"] # "RAW")

DiskZvols(seq) ==
    LET disks == SelectSeq(seq, LAMBDA d : d["dtype"] = "DISK")
    IN  [j \in 1..Len(disks) |-> zvol_path_to_name(disks[j]["attributes"]["path"])]

DTypes(seq) == [j \in 1..Len(seq) |-> seq[j]["dtype"]]

\* the steps that work on the device in item
DeviceSteps == ZvolSteps \cup {"port_wizard", "device_create"}

\* the records and snapshots of saga s follow the devices it has taken
InSourceOrder(s) ==
    new_vm[s] # 0 =>
        /\ IsPrefix(DTypes(RecordsOf(s)), DTypes(Recorded(Taken(s))))
        /\ IsPrefix([j \in 1..Len(created_snaps[s]) |-> Split(created_snaps[s][j])[1]],
                    DiskZvols(Taken(s)))
        /\ Len(created_clones[s]) <= Len(created_snaps[s])
        /\ pc[s] \in {"for_item", "returned"}
              => /\ Len(RecordsOf(s)) = Len(Recorded(Taken(s)))
                 /\ Len(created_clones[s]) = Len(DiskZvols(Taken(s)))
        /\ pc[s] \in DeviceSteps
              => /\ Len(RecordsOf(s)) = Len(Recorded(Taken(s))) - 1
                 /\ item[s]["dtype"] = Taken(s)[Len(Taken(s))]["dtype"]

\* C21: the device records of the new entity and the snapshots of the call
\* follow the order of the devices of the source; the loop takes the next
\* device only at its head, when the device before has its clone and its
\* record (or was skipped), and every call between two heads of the loop is
\* a call for the device taken last.
C21_DeviceOrder ==
    [][\A s \in procs :
        /\ InSourceOrder(s)'
        /\ devices'[s] # devices[s]
              => \/ pc[s] = "idle"
                 \/ pc[s] = "for_item" /\ devices'[s] = Tail(devices[s])
        /\ (pc[s] \in DeviceSteps /\ log'[s] # log[s])
              => /\ devices'[s] = devices[s]
                 /\ item'[s]["dtype"] = item[s]["dtype"]]_vars

\* the three devices NIC, DISPLAY, DISK got their records in this order
C21_Witness ==
    \E s \in procs :
        /\ pc[s] = "returned"
        /\ DTypes(RecordsOf(s)) = <<"NIC", "DISPLAY", "DISK">>
        /\ DTypes(Source(s).devices) = <<"NIC", "DISPLAY", "DISK">>

\* the identifiers of the entities that the clone() calls have created
NewIds == { new_vm[s] : s \in procs } \ {0}

\* the NIC devices of the entities that are in the store from the start
SourceNics ==
    UNION { { v.devices[k] : k \in { j \in 1..Len(v.devices) :
                                        v.devices[j]["dtype"] = "NIC" } }
            : v \in { x \in vms : x.id \notin NewIds } }

\* C22: every NIC device record has no 'mac' attribute and no 'id' field, its
\* owner is the entity a clone() call created, never the source, and its
\* other attributes are those of a NIC of the source.
C22_NicTransform ==
    \A j \in 1..Len(devs) :
        devs[j]["dtype"] = "NIC"
            => /\ "mac" \notin DOMAIN devs[j]["attributes"]
               /\ "id" \notin DOMAIN devs[j]
               /\ devs[j]["vm"] \in NewIds
               /\ devs[j]["vm"] # SrcId
               /\ \E n \in SourceNics :
                     /\ "mac" \in DOMAIN n["attributes"]
                     /\ devs[j]["attributes"] = Pop(n["attributes"], "mac")

\* a NIC record was created from a NIC of the source that has a mac
C22_Witness ==
    /\ \E j \in 1..Len(devs) : devs[j]["dtype"] = "NIC"
    /\ \E n \in SourceNics : n["attributes"]["mac"] = "00:a0:98:11:22:33"

\* the port pairs that vm.port_wizard has handed out
Allocated == { port_wizard(p) : p \in { q \in 5902..(nextPort - 2) : q % 2 = 0 } }

\* the ports of the DISPLAY devices of the entities in the store
SourcePorts ==
    UNION { UNION { {v.devices[k]["attributes"]["port"],
                     v.devices[k]["attributes"]["web_port"]}
                    : k \in { j \in 1..Len(v.devices) :
                                v.devices[j]["dtype"] = "DISPLAY" } }
            : v \in vms }

DisplayRecords == { j \in 1..Len(devs) : devs[j]["dtype"] = "DISPLAY" }

Updated == dpc = "done" /\ dcall.op = "update" /\ zds.exists

\* the items of the batch passed to do_update
Items == { dcall.args[j] : j \in 1..Len(dcall.args) }

Inherits(v) == "source" \in DOMAIN v /\ v["source"] = "INHERIT"

CarriesValue(v) == "value" \in DOMAIN v \/ "parsed" \in DOMAIN v

\* do_update has raised validation errors, one of them msg for property k
Rejected(k, msg) ==
    /\ dresult.kind = "ValidationErrors"
    /\ \E j \in 1..Len(dresult.detail) :
          dresult.detail[j] = [attr |-> k, msg |-> msg]

\* C24: a batch with an item that asks to inherit a property the target does
\* not have is rejected with a validation error for this property.
C24_InheritValidation ==
    Updated =>
        \A x \in Items :
            (Inherits(x.v) /\ x.k \notin DOMAIN TargetProps)
                => Rejected(x.k, "Property does not exist and cannot be inherited")

\* the batch asked to inherit 'bogus' after a valid change of compression
C24_Witness ==
    /\ Updated
    /\ dcall.args = << [k |-> <<"compression">>, v |-> [value |-> "v"]],
                       [k |-> <<"bogus">>, v |-> [source |-> "INHERIT"]] >>
    /\ Len(dresult.detail) = 1

\* C25: a batch is rejected with a validation error for property k when an
\* item that does not inherit carries neither 'value' nor 'parsed', and when
\* such an item names a property the target lacks without a ':' in the name;
\* an item that does not inherit, carries a value and names a property of
\* the target causes no validation error, and a batch of such items passes.
C25_SetValidation ==
    Updated =>
        /\ \A x \in Items :
              ~Inherits(x.v) =>
                 /\ ~CarriesValue(x.v)
                       => Rejected(x.k, "\"value\" or \"parsed\" must be specified when setting a property")
                 /\ (x.k \notin DOMAIN TargetProps /\ ~Contains(x.k, ":"))
                       => Rejected(x.k, "User property needs a colon (:) in its name")
                 /\ (CarriesValue(x.v) /\ x.k \in DOMAIN TargetProps
                        /\ dresult.kind = "ValidationErrors")
                       => \A j \in 1..Len(dresult.detail) :
                             dresult.detail[j].attr # x.k
        /\ (\A x \in Items : /\ ~Inherits(x.v)
                              /\ CarriesValue(x.v)
                              /\ x.k \in DOMAIN TargetProps)
              => dresult.kind # "ValidationErrors"

\* 'bogus' was set with a value and without a namespace, next to an accepted
\* change of quota: one error, for 'bogus'
C25_Witness ==
    /\ Updated
    /\ dcall.args = << [k |-> <<"quota">>, v |-> [parsed |-> "p"]],
                       [k |-> <<"bogus">>, v |-> [value |-> "v"]] >>
    /\ Rejected(<<"bogus">>, "User property needs a colon (:) in its name")
    /\ Len(dresult.detail) = 1

\* C26: when do_update raises validation errors the properties of the target
\* are what they were and no property was handed to the store, whatever
\* valid items the batch holds; a batch with one invalid item is rejected.
C26_ValidationAllOrNothing ==
    Updated =>
        /\ dresult.kind = "ValidationErrors"
              => zds.props = TargetProps /\ handed = <<>>
        /\ (\E x \in Items : ItemErrors(x.k, x.v, TargetProps) # <<>>)
              => dresult.kind = "ValidationErrors"

\* a valid change of compression came before an invalid item and was not
\* applied
C26_Witness ==
    /\ Updated
    /\ dresult.kind = "ValidationErrors"
    /\ Len(dcall.args) = 3
    /\ dcall.args[1] = [k |-> <<"compression">>, v |-> [value |-> "v"]]
    /\ dcall.args[2].k = <<"org", ":", "new">>
    /\ Len(dresult.detail) = 1
    /\ zds.props[<<"compression">>].value = "default"

\* C27: do_create with a name that has no '/' raises a validation error for
\* 'name' and leaves the store as it is; with a name that has a '/' it raises
\* no validation error.
C27_CreateRejectsRootNames ==
    [][(dpc = "idle" /\ dcall'.op = "create")
          => IF Contains(dcall'.args.name, "/")
             THEN dresult'.kind # "ValidationErrors"
             ELSE /\ dresult'.kind = "ValidationErrors"
                  /\ \E j \in 1..Len(dresult'.detail) :
                        dresult'.detail[j].attr = <<"name">>
                  /\ zds' = zds]_vars

\* 'tank' was refused and no dataset exists
C27_Witness ==
    /\ dpc = "done"
    /\ dcall.op = "create"
    /\ dcall.args.name = <<"tank">>
    /\ dresult.kind = "ValidationErrors"
    /\ ~zds.exists

\* zfs destroy has failed and the failure is not the tolerated one
DeleteFailed ==
    /\ dpc = "done"
    /\ dcall.op = "delete"
    /\ dcall.stderr # <<>>
    /\ ~(dcall.recv = 0 /\ Contains(dcall.stderr, "dataset does not exist"))

\* C28: when zfs destroy fails and the failure is not the tolerated one,
\* do_delete raises a CallError whose errno is EBUSY when the message of zfs
\* holds 'Device busy' or 'dataset is busy' and EFAULT otherwise, as for
\* 'dataset does not exist' after zfs recv -A exited with a status other
\* than 0.
C28_DeleteClassification ==
    DeleteFailed =>
        /\ dresult.kind = "CallError"
        /\ dresult.errno \in {"EBUSY", "EFAULT"}
        /\ dresult.errno = "EBUSY"
              <=> \/ Contains(dcall.stderr, "Device busy")
                  \/ Contains(dcall.stderr, "dataset is busy")
        /\ dcall.stderr = NoDataset => dresult.errno = "EFAULT"

\* the dataset was busy
C28_Witness ==
    /\ DeleteFailed
    /\ Contains(dcall.stderr, "dataset is busy")
    /\ dresult.errno = "EBUSY"
    /\ zds.exists

\* the allocation loops of saga s have made no more iterations than there
\* are names, plus one for the base name that the loop meets twice
LoopsBounded(s) ==
    /\ pc[s] = "snap_query"
          => zv[s].i <= Cardinality(SnapNamesOf(zv[s].zvol)) + 1
    /\ pc[s] = "clone_query"
          => zv[s].i <= Cardinality(CloneSuffixesOf(zv[s].zvol)) + 1

\* a step of a rollback loop of saga s drops one entry of the ledger it
\* walks, or leaves the loop when no entry is left
OnePass(s) ==
    (pc[s] \in {"rb_clones", "rb_snaps"} /\ <<pc[s], rb[s], log[s]>>' # <<pc[s], rb[s], log[s]>>)
        => IF rb[s] = <<>>
           THEN /\ pc'[s] = (IF pc[s] = "rb_clones" THEN "rb_snaps" ELSE "raised")
                /\ pc[s] = "rb_clones" => rb'[s] = Reversed(created_snaps[s])
                /\ log'[s] = log[s]
           ELSE /\ pc'[s] = pc[s]
                /\ rb'[s] = Tail(rb[s])

\* C29: every clone() call that has started ends, returned or raised, when
\* the calls it awaits return: an allocation loop makes at most one iteration
\* more than there are names, and each rollback loop visits every entry of
\* its ledger once and then ends.
C29_Termination ==
    /\ [][\A s \in procs : LoopsBounded(s)' /\ OnePass(s)]_vars
    /\ \A s \in Sagas : (pc[s] # "idle") ~> (pc[s] \in Ended)

\* a call has raised after an allocation loop went through the names of
\* MaxIdx earlier clones and a rollback over two ledgers
C29_Witness ==
    \E s \in procs :
        /\ RolledBack(s)
        /\ zv[s].i >= MaxIdx
        /\ Len(created_snaps[s]) >= 2
        /\ Len(created_clones[s]) >= 1

\* the datasets that the DISK device records of saga s refer to, in the
\* order of the records
DiskTargets(s) ==
    LET disks == SelectSeq(RecordsOf(s), LAMBDA d : d["dtype"] = "DISK")
    IN  [j \in 1..Len(disks) |-> zvol_path_to_name(disks[j]["attributes"]["path"])]

\* C30 as stated: when a clone() call has returned or raised, every DISK
\* device record it created refers to a dataset that is in the store.
C30_Original ==
    \A s \in procs :
        (pc[s] \in Ended /\ new_vm[s] # 0)
            => \A j \in 1..Len(DiskTargets(s)) : DiskTargets(s)[j] \in DatasetIds

\* C30: the DISK device records of a call refer to the clone datasets of its
\* ledger, in order. When the call has returned True all of them are in the
\* store; when it has raised, the records are still there and each refers
\* to a dataset that is in the store only if its delete call failed.
C30_DiskReferences ==
    \A s \in procs :
        (pc[s] \in Ended /\ new_vm[s] # 0)
            => /\ IsPrefix(DiskTargets(s), created_clones[s])
               /\ pc[s] = "returned"
                     => /\ DiskTargets(s) = created_clones[s]
                        /\ \A j \in 1..Len(DiskTargets(s)) :
                              \E d \in datasets : d.id = DiskTargets(s)[j] /\ d.by = s
               /\ pc[s] = "raised"
                     => \A j \in 1..Len(DiskTargets(s)) :
                           DiskTargets(s)[j] \in DatasetIds
                              <=> \E k \in FailedComp(s) :
                                     /\ log[s][k].op = "zfs.dataset.delete"
                                     /\ log[s][k].arg = DiskTargets(s)[j]

\* the call raised at its second DISK device; the record of the first one
\* refers to the clone that the rollback has deleted
C30_Witness ==
    \E s \in procs :
        /\ RolledBack(s)
        /\ Len(DiskTargets(s)) = 1
        /\ DiskTargets(s)[1] = created_clones[s][1]
        /\ DiskTargets(s)[1] \notin DatasetIds
        /\ FailedComp(s) = {}

\* ------------------------------------------------ C31: rollback isolation
\* the store entries that leave the store in a step
Destroyed == (datasets \ datasets') \cup (snaps \ snaps')

\* the saga whose call is made in a step
Acts(s) == log'[s] # log[s]

\* the ids saga s recorded in its ledgers
LedgerIds(s) == Range(created_clones[s]) \cup Range(created_snaps[s])

\* the successful compensation calls of saga s
Compensated(s) ==
    { k \in 1..Len(log[s]) :
        /\ log[s][k].op \in {"zfs.dataset.delete", "zfs.snapshot.remove"}
        /\ log[s][k].err = NoErr }

\* C31: in every interleaving of clone calls on one store, a snapshot or a
\* clone dataset leaves the store only in a rollback step of the call that
\* created it, and it is an entry of that call's ledgers; what another call
\* created, and what was there before, is never deleted by it.
C31_RollbackIsolation ==
    [][\A s \in procs :
          Acts(s) => \A x \in Destroyed :
                        /\ x.by = s
                        /\ x.id \in LedgerIds(s)
                        /\ pc[s] \in {"rb_clones", "rb_snaps"}]_vars

\* one call has rolled back a clone and a snapshot, and the name of the
\* snapshot it removed now belongs to a snapshot of the other call
C31_Witness ==
    \E s \in procs, t \in procs :
        /\ s # t
        /\ RolledBack(s)
        /\ Cardinality(Compensated(s)) = 2
        /\ \E x \in snaps : x.by = t /\ x.id \in Range(created_snaps[s])
        /\ \E d \in datasets : d.by = t

\* ------------------------------------------- C32: share ACL restore round trip
\* _flush_share_info returns in this step
FlushReturns == spc = "flush" /\ spc' = "idle" /\ sresult'.kind = "None"

\* the security descriptor Samba applies to a share, given share_info.tdb
EntryOf(tdb, share) ==
    IF SambaKey(ServedAs(share)) \in DOMAIN tdb
    THEN tdb[SambaKey(ServedAs(share))] ELSE Encode(DefaultAcl)

====
